---- MODULE Spec2Model ----
(***************************************************************************)
(* La Mer (src/lamer.py): item lifecycle, subscription recurrence and the  *)
(* mini-language handlers, as a state machine over the persisted record    *)
(* store.  One Streamlit script run is: load the store, run                *)
(* check_subscriptions, then (when a button was clicked) one handler.      *)
(*                                                                         *)
(* Conventions.  A text is a sequence of pieces, each piece a word whose    *)
(* characters CharTable spells out; character-level functions (lower,      *)
(* isalnum, slicing, `in`) work on the spelled-out sequence.  Names,        *)
(* categories, accounts and currencies are one piece each, so two of them  *)
(* are equal as Python strings exactly when they are equal here.  A date   *)
(* is the record [y, m, d] that '%Y-%m-%d' prints and parses, a price is   *)
(* in cents, a rate in tenths.  Non-ASCII literals of the source are       *)
(* written in ASCII: "Sub_" for the invoice prefix, "SubscriptionService"  *)
(* for the default subscription category, "date" / "source" / "account" /  *)
(* "currency" / "category" for the five metadata keys.                     *)
(* parse_input_text reads a block as its classified lines, which Lex makes *)
(* of a line typed character by character; expand_quick_input, which works *)
(* on the characters, reads a line as the sequence of its characters.  The *)
(* full-width colon is the character "colon".                              *)
(***************************************************************************)
EXTENDS Integers, Sequences, FiniteSets, TLC

VARIABLES
    today,              \* datetime.now().date(), read-only for the program
    pc,                 \* where the script is: "idle", "handle", "rerun"
    err,                \* how the last run ended: "none", "ValueError", "KeyError", "NothingParsed"
    inventory_df,       \* inventory.csv, a sequence of item rows
    history_df,         \* history.csv
    lost_df,            \* lost.csv
    sold_df,            \* sold.csv
    products_db,        \* products_global.json, name -> catalog entry
    categories_db,      \* categories.json, a list
    accounts_db,        \* accounts.json, a list
    subscriptions_db,   \* subscriptions.json, a dict in insertion order (sequence of records keyed by name)
    deposits_db,        \* deposits.json, name -> count
    exchange_rates_df,  \* exchange_rates.csv, rows in file order
    renewed_subs,       \* the names check_subscriptions renewed in the current run
    deposit_returns,    \* the deposit-return events parse_input_text handed to the last submit
    input_text,         \* the purchase page's text area, a sequence of lines of characters
    processed_text,     \* expand_quick_input of input_text, as the page last computed it
    eurValue,           \* the eurValue column the inspect page last computed, row by row
    submitted           \* the block the submit handler of this run handed to parse_input_text

vars == <<today, pc, err, inventory_df, history_df, lost_df, sold_df, products_db,
          categories_db, accounts_db, subscriptions_db, deposits_db, exchange_rates_df,
          renewed_subs, deposit_returns, input_text, processed_text, eurValue,
          submitted>>

\* what the pages computed when they were last drawn
rendered == <<input_text, processed_text, eurValue>>

store == <<inventory_df, history_df, lost_df, sold_df, products_db, categories_db,
           accounts_db, subscriptions_db, deposits_db>>

----------------------------------------------------------------------------
(* Bounds of the model. *)

\* rows over the four collections together, in the renewal specification
RenewalRows == 4
\* rows over the four collections together, in the lifecycle specification
LifecycleRows == 2
\* days the clock moves at a time
JumpDays == 62
\* days after StartDate within which the clock moves
HorizonDays == 62
\* cap of purchaseCount and of the deposit counts, which only grow
MaxCount == 1

\* days after FirstParseDay on which a registration is tried
ParseSpan == 70

\* rows over the four collections together, in the purchase specification
PurchaseRows == 2
\* body lines of a submitted purchase block
BlockLines == 2
\* rows over the four collections together, in the catalog specification
CatalogRows == 3
\* lines of a block typed character by character
TypedLines == 3
\* rows over the four collections together, in the exchange-rate specification
RateRows == 2
\* pieces a line typed for expansion is made of
ExpandPieces == 3

\* hash(...) % 10000 in generate_product_id
HASH_MOD == 10000

SimpleNameLen == 6

----------------------------------------------------------------------------
(* Dates: datetime.date, date.replace, timedelta. *)

\* a raised exception, as the value an operator yields in place of its result
ValueError == [error |-> "ValueError"]
KeyError == [error |-> "KeyError"]
ZeroDivisionError == [error |-> "ZeroDivisionError"]

\* a number an operator yields when it may raise instead
Ok(v) == [value |-> v]

IsError(v) == "error" \in DOMAIN v

\* dict.get(key, default)
Get(d, key, default) == IF key \in DOMAIN d THEN d[key] ELSE default

Date(y, m, d) == [y |-> y, m |-> m, d |-> d]

IsLeap(y) == (y % 4 = 0) /\ ((y % 100 # 0) \/ (y % 400 = 0))

DaysInMonth(y, m) ==
    IF m = 2 THEN (IF IsLeap(y) THEN 29 ELSE 28)
    ELSE IF m \in {4, 6, 9, 11} THEN 30 ELSE 31

\* date.replace(year=, month=, day=): ValueError when the result is no calendar date
Replace(y, m, d) ==
    IF m \in 1..12 /\ d >= 1 /\ d <= DaysInMonth(y, m) THEN Date(y, m, d) ELSE ValueError

RECURSIVE DaysBeforeMonth(_, _)
DaysBeforeMonth(y, m) ==
    IF m <= 1 THEN 0 ELSE DaysBeforeMonth(y, m - 1) + DaysInMonth(y, m - 1)

\* date.toordinal(): what date subtraction and comparison work on
ToOrdinal(dt) ==
    LET y1 == dt.y - 1
    IN  y1 * 365 + (y1 \div 4) - (y1 \div 100) + (y1 \div 400)
        + DaysBeforeMonth(dt.y, dt.m) + dt.d

DateLE(a, b) == ToOrdinal(a) <= ToOrdinal(b)

DateLT(a, b) == ToOrdinal(a) < ToOrdinal(b)

\* (b - a).days
DaysBetween(a, b) == ToOrdinal(b) - ToOrdinal(a)

\* dt + timedelta(days=n), n >= 0
RECURSIVE AddDays(_, _)
AddDays(dt, n) ==
    LET dim == DaysInMonth(dt.y, dt.m)
    IN  IF dt.d + n <= dim THEN Date(dt.y, dt.m, dt.d + n)
        ELSE AddDays(IF dt.m = 12 THEN Date(dt.y + 1, 1, 1) ELSE Date(dt.y, dt.m + 1, 1),
                     n - (dim - dt.d + 1))

\* dt.replace(day=1) + timedelta(days=32): some day early in the following month
NextMonthProbe(dt) == AddDays(Date(dt.y, dt.m, 1), 32)

----------------------------------------------------------------------------
(* Text helpers: str.lower, str.isalnum, slicing, substring test. *)

UpperSeq == <<"A","B","C","D","E","F","G","H","I","J","K","L","M",
              "N","O","P","Q","R","S","T","U","V","W","X","Y","Z">>

LowerSeq == <<"a","b","c","d","e","f","g","h","i","j","k","l","m",
              "n","o","p","q","r","s","t","u","v","w","x","y","z">>

DigitSet == {"0","1","2","3","4","5","6","7","8","9"}

LowerChar(c) ==
    IF \E i \in 1..Len(UpperSeq) : UpperSeq[i] = c
    THEN LowerSeq[CHOOSE i \in 1..Len(UpperSeq) : UpperSeq[i] = c]
    ELSE c

Lower(s) == [i \in 1..Len(s) |-> LowerChar(s[i])]

IsAlnum(c) ==
    \/ \E i \in 1..Len(UpperSeq) : UpperSeq[i] = c \/ LowerSeq[i] = c
    \/ c \in DigitSet

Prefix(s, n) == SubSeq(s, 1, IF Len(s) < n THEN Len(s) ELSE n)

\* sub in s
Contains(s, sub) ==
    \E i \in 0..(Len(s) - Len(sub)) : SubSeq(s, i + 1, i + Len(sub)) = sub

PFAND == <<"p","f","a","n","d">>

\* the full-width colon of the metadata lines
Colon == "colon"

\* the characters a typed line is made of.  Each of the metadata keys typed,
\* two characters in the source, is one character here.
TypedChars ==
    {UpperSeq[i] : i \in 1..Len(UpperSeq)} \cup {LowerSeq[i] : i \in 1..Len(LowerSeq)}
    \cup DigitSet \cup {" ", "#", ">", "<", "(", ")", ":", ".", "-", Colon, "account"}

\* the characters of each word the inputs are made of; a character is the
\* word of itself
CharTable ==
    [Netflix |-> <<"N","e","t","f","l","i","x">>,
     Netflix4K |-> <<"N","e","t","f","l","i","x","4","K">>,
     Pfand |-> <<"P","f","a","n","d">>,
     Cash |-> <<"C","a","s","h">>,
     Milk |-> <<"M","i","l","k">>,
     PayPal |-> <<"P","a","y","P","a","l">>,
     GBP |-> <<"G","B","P">>,
     EUR |-> <<"E","U","R">>,
     CNY |-> <<"C","N","Y">>,
     USD |-> <<"U","S","D">>,
     JPY |-> <<"J","P","Y">>,
     SubscriptionService |-> <<"S","u","b","s","c","r","i","p","t","i","o","n",
                               "S","e","r","v","i","c","e">>,
     Sub_ |-> <<"S","u","b","_">>,
     fruit |-> <<"f","r","u","i","t">>,
     grain |-> <<"g","r","a","i","n">>,
     drink |-> <<"d","r","i","n","k">>,
     daily |-> <<"d","a","i","l","y">>] @@ ("_" :> <<"_">>) @@ [c \in TypedChars |-> <<c>>]

\* the characters of a text
RECURSIVE Flatten(_)
Flatten(text) == IF text = <<>> THEN <<>> ELSE CharTable[Head(text)] \o Flatten(Tail(text))

EUR == <<"EUR">>
CNY == <<"CNY">>
USD == <<"USD">>
JPY == <<"JPY">>

----------------------------------------------------------------------------
(* Exchange rates and identifiers. *)

\* the seed table of init_exchange_rates (rates in tenths)
SeedRates ==
    << [month |-> <<2025, 9>>, rates |-> [c \in {EUR, CNY, USD, JPY} |->
            CASE c = EUR -> 10 [] c = CNY -> 78 [] c = USD -> 11 [] c = JPY -> 1500]] >>

\* get_exchange_rate falling back to the first row of the table
get_exchange_rate_first(rates_df, currency, dt) ==
    LET hits == SelectSeq(rates_df, LAMBDA r : r.month = <<dt.y, dt.m>>)
        row  == IF hits = <<>> THEN rates_df[1] ELSE hits[1]
    IN  IF currency \in DOMAIN row.rates THEN Ok(row.rates[currency]) ELSE KeyError

\* get_exchange_rate with a rate of 1.0 for a currency without a column
get_exchange_rate_default(rates_df, currency, dt) ==
    LET hits == SelectSeq(rates_df, LAMBDA r : r.month = <<dt.y, dt.m>>)
        row  == IF hits = <<>> THEN rates_df[Len(rates_df)] ELSE hits[1]
    IN  IF currency \in DOMAIN row.rates THEN Ok(row.rates[currency]) ELSE Ok(10)

\* get_exchange_rate: the first row of the date's month, else the last row; a
\* currency without a column is a KeyError
get_exchange_rate(rates_df, currency, dt) ==
    LET hits == SelectSeq(rates_df, LAMBDA r : r.month = <<dt.y, dt.m>>)
        row  == IF hits = <<>> THEN rates_df[Len(rates_df)] ELSE hits[1]
    IN  IF currency \in DOMAIN row.rates THEN Ok(row.rates[currency]) ELSE KeyError

\* to_eur: amount / rate as the pair <<dividend, divisor>> of the quotient in
\* cents (the rate is in tenths); the amount itself in the base currency
to_eur(rates_df, amount, currency, purchase_date) ==
    IF currency = EUR THEN Ok(<<amount, 1>>)
    ELSE LET rate == get_exchange_rate(rates_df, currency, purchase_date)
         IN  IF IsError(rate) THEN rate
             ELSE IF rate.value = 0 THEN ZeroDivisionError
             ELSE Ok(<<amount * 10, rate.value>>)

\* ''.join(e for e in name if e.isalnum())[:6].lower()
SimpleName(name) == Lower(Prefix(SelectSeq(Flatten(name), IsAlnum), SimpleNameLen))

\* generate_product_id: '%y%m%d' of now, the 4-digit hash residue, '_', simple name.
\* The hash residue h is the caller's nondeterministic choice.
generate_product_id(name, now, h) == <<now.y % 100, now.m, now.d, h, SimpleName(name)>>

----------------------------------------------------------------------------
(* Rows. *)

\* the 13 inventory columns (inv_cols)
Item(id, name, category, actual, standard, currency, purchaseDate, source, account, invoiceName, discount, rate) ==
    [id |-> id, name |-> name, category |-> category, actualPrice |-> actual,
     standardPrice |-> standard, currency |-> currency, purchaseDate |-> purchaseDate,
     source |-> source, account |-> account, invoiceName |-> invoiceName,
     discount |-> discount, inTransit |-> FALSE, purchaseRate |-> rate]

inv_cols == {"id", "name", "category", "actualPrice", "standardPrice", "currency",
             "purchaseDate", "source", "account", "invoiceName", "discount", "inTransit",
             "purchaseRate"}

\* dict(row) with more keys set
With4(row, k1, v1, k2, v2, k3, v3, k4, v4) ==
    [k \in DOMAIN row \cup {k1, k2, k3, k4} |->
        IF k = k1 THEN v1 ELSE IF k = k2 THEN v2 ELSE IF k = k3 THEN v3
        ELSE IF k = k4 THEN v4 ELSE row[k]]

With1(row, k1, v1) == [k \in DOMAIN row \cup {k1} |-> IF k = k1 THEN v1 ELSE row[k]]

\* dict.pop(key, None)
Without(row, k1) == [k \in DOMAIN row \ {k1} |-> row[k]]

Ids(rows) == {rows[i].id : i \in 1..Len(rows)}

\* df[df['id'] != item_id]
DropId(rows, item_id) == SelectSeq(rows, LAMBDA r : r.id # item_id)

\* df[df['id'] == item_id].iloc[0]
FirstWithId(rows, item_id) == SelectSeq(rows, LAMBDA r : r.id = item_id)[1]

----------------------------------------------------------------------------
(* check_subscriptions (src/lamer.py 314-370). *)

\* the item a renewal creates (lines 324-338); KeyError when the rate lookup fails
RenewalItem(sub, now, h, rates_df) ==
    LET rate == get_exchange_rate(rates_df, sub.currency, now)
    IN  IF IsError(rate) THEN rate
        ELSE Item(generate_product_id(sub.name, now, h), sub.name, sub.category, sub.price,
                  sub.price, sub.currency, now, sub.source, sub.account,
                  <<"Sub_">> \o sub.name, 0, rate.value)

\* lines 349-353: the history row of an old instance
AutoCheckout(old_item, now) ==
    With4(old_item, "checkoutDate", now, "utilization", 100,
          "checkoutMode", "subscription_auto",
          "daysInService", DaysBetween(old_item.purchaseDate, now))

\* lines 343-346: the rows of that name other than the new one
OldItems(inv, sub_name, new_id) ==
    SelectSeq(inv, LAMBDA r : r.name = sub_name /\ r.id # new_id)

\* the same arithmetic counted from the day of the run instead of from the
\* previous due date
AdvanceFromToday(sub) ==
    IF sub.period = "M"
    THEN LET next_month == NextMonthProbe(today)
         IN  Replace(next_month.y, next_month.m, sub.day)
    ELSE IF sub.period = "Y"
    THEN Replace(today.y + 1, sub.day \div 100, sub.day % 100)
    ELSE sub.nextDate

\* lines 358-366: the next due date, one period after the previous one
AdvanceNextDate(sub) ==
    LET next_date == sub.nextDate
    IN  IF sub.period = "M"
        THEN LET next_month == NextMonthProbe(next_date)
             IN  Replace(next_month.y, next_month.m, sub.day)
        ELSE IF sub.period = "Y"
        THEN Replace(next_date.y + 1, sub.day \div 100, sub.day % 100)
        ELSE next_date

\* the same step with the archived rows written over the history instead of
\* appended to it
RenewOneOverHistory(acc, i, now, h, rates_df) ==
    LET sub == acc.subs[i]
        item == RenewalItem(sub, now, h, rates_df)
    IN  IF IsError(item) THEN item
        ELSE
        LET inv1 == Append(acc.inv, item)
            old_items == OldItems(inv1, sub.name, item.id)
            hist1 == [k \in 1..Len(old_items) |-> AutoCheckout(old_items[k], now)]
            inv2 == SelectSeq(inv1, LAMBDA r : r.id \notin Ids(old_items))
            nd == AdvanceNextDate(sub)
        IN  IF IsError(nd) THEN nd
            ELSE [subs |-> [acc.subs EXCEPT ![i].nextDate = nd], inv |-> inv2,
                  hist |-> hist1, renewed |-> Append(acc.renewed, sub.name)]

\* one subscription of the loop, due: lines 323-368
RenewOne(acc, i, now, h, rates_df) ==
    LET sub == acc.subs[i]
        item == RenewalItem(sub, now, h, rates_df)
    IN  IF IsError(item) THEN item
        ELSE
        LET inv1 == Append(acc.inv, item)
            old_items == OldItems(inv1, sub.name, item.id)
            hist1 == acc.hist \o [k \in 1..Len(old_items) |-> AutoCheckout(old_items[k], now)]
            inv2 == SelectSeq(inv1, LAMBDA r : r.id \notin Ids(old_items))
            nd == AdvanceNextDate(sub)
        IN  IF IsError(nd) THEN nd
            ELSE [subs |-> [acc.subs EXCEPT ![i].nextDate = nd], inv |-> inv2,
                  hist |-> hist1, renewed |-> Append(acc.renewed, sub.name)]

\* the loop over subscriptions_db.items(), from entry i on; hs[i] is the hash
\* residue drawn for entry i's new id.  An exception ends the run.
RECURSIVE RenewFrom(_, _, _, _, _)
RenewFrom(acc, i, now, hs, rates_df) ==
    IF i > Len(acc.subs) THEN acc
    ELSE IF ~DateLE(acc.subs[i].nextDate, now) THEN RenewFrom(acc, i + 1, now, hs, rates_df)
    ELSE LET step == RenewOne(acc, i, now, hs[i], rates_df)
         IN  IF IsError(step) THEN step ELSE RenewFrom(step, i + 1, now, hs, rates_df)

check_subscriptions(subs, inv, hist, now, hs, rates_df) ==
    RenewFrom([subs |-> subs, inv |-> inv, hist |-> hist, renewed |-> <<>>], 1, now, hs, rates_df)

----------------------------------------------------------------------------
(* Input text.  A text is a sequence of lines, a line a record of the parts *)
(* the parsers split it into:                                               *)
(*   [kind |-> "sep"]                          the line '---'               *)
(*   [kind |-> "meta", key, value]             'key<fullwidth colon>value'  *)
(*   [kind |-> "header", category]             '## category'                *)
(*   [kind |-> "return", count, amount]        'Pfand (count) << amount'    *)
(*   [kind |-> "item", invoice, name, prices]  '[invoice ::] name >> p[::a]'*)
(*   [kind |-> "sub", period, day, name, price] 'Sub:P:day name >> price'   *)
(*   [kind |-> "other"]                        anything else                *)
(* A number field is a token [ok, v]: float() yields v when ok and raises   *)
(* ValueError otherwise.                                                    *)

Num(v) == [ok |-> TRUE, v |-> v]

\* float(token) with a field that is no number read as zero
FloatOrZero(tok) == IF tok.ok THEN Ok(tok.v) ELSE Ok(0)

\* a price field float() rejects, such as `abc` or the empty string
NotANumber == [ok |-> FALSE, v |-> 0]

\* float(token)
Float(tok) == IF tok.ok THEN Ok(tok.v) ELSE ValueError

\* the default category of a subscription (line 309)
SubscriptionService == <<"SubscriptionService">>

----------------------------------------------------------------------------
(* parse_subscription_input (src/lamer.py 253-312). *)

\* lines 287-298: the first due date of a subscription registered on `now`
FirstNextDate(period, date_str, now) ==
    IF period = "M"
    THEN LET next_date == Replace(now.y, now.m, date_str)
         IN  IF IsError(next_date) THEN next_date
             ELSE IF DateLE(next_date, now)
             THEN LET next_month == NextMonthProbe(now)
                  IN  Replace(next_month.y, next_month.m, date_str)
             ELSE next_date
    ELSE LET next_date == Replace(now.y, date_str \div 100, date_str % 100)
         IN  IF IsError(next_date) THEN next_date
             ELSE IF DateLE(next_date, now)
             THEN Replace(now.y + 1, next_date.m, next_date.d)
             ELSE next_date

\* lines 300-310: the record of one subscription line
SubRecord(line, price, next_date, metadata) ==
    [name |-> line.name, price |-> price, period |-> line.period, day |-> line.day,
     nextDate |-> next_date,
     currency |-> Get(metadata, "currency", EUR),
     source |-> Get(metadata, "source", <<>>),
     account |-> Get(metadata, "account", <<>>),
     category |-> Get(metadata, "category", SubscriptionService)]

\* one line of the loop (lines 260-310) on the accumulator [in_metadata, metadata, subs]
SubLine(acc, line, now) ==
    IF line.kind = "sep" THEN [acc EXCEPT !.in_metadata = ~acc.in_metadata]
    ELSE IF acc.in_metadata
    THEN IF line.kind = "meta"
         THEN [acc EXCEPT !.metadata = With1(acc.metadata, line.key, line.value)]
         ELSE acc
    ELSE IF line.kind = "sub"
    THEN LET price == Float(line.price)
             next_date == FirstNextDate(line.period, line.day, now)
         IN  IF IsError(price) THEN price
             ELSE IF IsError(next_date) THEN next_date
             ELSE [acc EXCEPT !.subs = Append(acc.subs,
                        SubRecord(line, price.value, next_date, acc.metadata))]
    ELSE acc

RECURSIVE SubLinesFrom(_, _, _, _)
SubLinesFrom(acc, text, i, now) ==
    IF i > Len(text) THEN acc
    ELSE LET step == SubLine(acc, text[i], now)
         IN  IF IsError(step) THEN step ELSE SubLinesFrom(step, text, i + 1, now)

\* the subscriptions of a text, or the exception raised
parse_subscription_input(text, now) ==
    LET r == SubLinesFrom([in_metadata |-> FALSE, metadata |-> <<>>, subs |-> <<>>], text, 1, now)
    IN  IF IsError(r) THEN r ELSE [subs |-> r.subs]

----------------------------------------------------------------------------
(* The add-subscription handler (src/lamer.py 685-730). *)

\* subscriptions_db[name] = sub on a dict kept in insertion order
DictSet(subs, sub) ==
    IF \E i \in 1..Len(subs) : subs[i].name = sub.name
    THEN [i \in 1..Len(subs) |-> IF subs[i].name = sub.name THEN sub ELSE subs[i]]
    ELSE Append(subs, sub)

SubNames(subs) == {subs[i].name : i \in 1..Len(subs)}

\* lines 693-703 with the entry of a name already in the catalog left as it is
RegisterProductKeep(products, sub) ==
    IF sub.name \notin DOMAIN products
    THEN With1(products, sub.name,
               [name |-> sub.name, standardPrice |-> sub.price, currency |-> sub.currency,
                category |-> sub.category, purchaseCount |-> 0, buyout |-> FALSE])
    ELSE products

\* lines 693-703: the catalog entry of a registered subscription
RegisterProduct(products, sub) ==
    IF sub.name \notin DOMAIN products
    THEN With1(products, sub.name,
               [name |-> sub.name, standardPrice |-> sub.price, currency |-> sub.currency,
                category |-> sub.category, purchaseCount |-> 0, buyout |-> FALSE])
    ELSE [products EXCEPT ![sub.name].buyout = FALSE]

\* lines 706-720: the first instance of a registered subscription
FirstInstance(sub, now, h, rates_df) ==
    LET rate == get_exchange_rate(rates_df, sub.currency, now)
    IN  IF IsError(rate) THEN rate
        ELSE Item(generate_product_id(sub.name, now, h), sub.name, sub.category, sub.price,
                  sub.price, sub.currency, now, sub.source, sub.account,
                  <<"Sub_">> \o sub.name, 0, rate.value)

\* lines 689-722: the loop over new_subs, from entry i on
RECURSIVE AddSubsFrom(_, _, _, _, _, _)
AddSubsFrom(acc, new_subs, i, now, hs, rates_df) ==
    IF i > Len(new_subs) THEN acc
    ELSE LET sub == new_subs[i]
             item == FirstInstance(sub, now, hs[i], rates_df)
         IN  IF IsError(item) THEN item
             ELSE AddSubsFrom([subs |-> DictSet(acc.subs, sub),
                               products |-> RegisterProduct(acc.products, sub),
                               inv |-> Append(acc.inv, item)],
                              new_subs, i + 1, now, hs, rates_df)

----------------------------------------------------------------------------
(* The inventory-page and lost-page handlers (src/lamer.py 559-624, 641-651). *)

\* lines 561-565: the history row of a normal checkout
NormalCheckout(item, utilization, now) ==
    With4(item, "checkoutDate", now, "utilization", utilization, "checkoutMode", "normal",
          "daysInService", DaysBetween(item.purchaseDate, now))

\* lines 579-580: the lost row
LostRow(item, now) == With1(item, "lostDate", now)

\* lines 600-605: the sold row
SoldRow(item, sell_price, sell_account, now) ==
    With1(With4(item, "checkoutDate", now, "checkoutMode", "sell", "sellPrice", sell_price,
                "sellAccount", sell_account),
          "daysInService", DaysBetween(item.purchaseDate, now))

\* lines 643-644: the row a recovery puts back
RecoveredRow(lost_item) == Without(lost_item, "lostDate")

\* `for item_id in selected: row = src[id == item_id].iloc[0]; dst += Row(row);
\* src = src[id != item_id]`, from entry i of the selection on: what is left of
\* src, and the rows taken, in order
RECURSIVE TakeFrom(_, _, _, _)
TakeFrom(src, taken, selected, i) ==
    IF i > Len(selected) THEN [src |-> src, taken |-> taken]
    ELSE TakeFrom(DropId(src, selected[i]), Append(taken, FirstWithId(src, selected[i])),
                  selected, i + 1)

\* lines 619-620
RECURSIVE DeleteFrom(_, _, _)
DeleteFrom(inv, selected, i) ==
    IF i > Len(selected) THEN inv ELSE DeleteFrom(DropId(inv, selected[i]), selected, i + 1)

----------------------------------------------------------------------------
(* parse_input_text (src/lamer.py 152-251). *)

\* the test of line 238 on the product name alone
IsDepositByName(product_name, current_category) ==
    Contains(Lower(Flatten(product_name)), PFAND)

\* line 238: is this item line deposit-bearing
IsDeposit(product_name, current_category) ==
    Contains(Lower(Flatten(product_name)), PFAND) \/ Lower(Flatten(current_category)) = PFAND

\* lines 193-200: the invoice name of an item line
InvoiceName(line, metadata) ==
    IF line.invoice = <<>> THEN <<>>
    ELSE IF Get(metadata, "source", <<>>) # <<>>
    THEN metadata["source"] \o <<"_">> \o line.invoice[1]
    ELSE line.invoice[1]

\* lines 202-212 with the two sides of `::` taken the other way round
PricesSwapped(line) ==
    IF Len(line.prices) >= 2
    THEN LET standard == Float(line.prices[2])
             actual == Float(line.prices[1])
         IN  IF IsError(actual) THEN actual
             ELSE IF IsError(standard) THEN standard
             ELSE [standard |-> standard.value, actual |-> actual.value]
    ELSE LET price == Float(line.prices[1])
         IN  IF IsError(price) THEN price
             ELSE [standard |-> price.value, actual |-> price.value]

\* lines 202-212: [standard, actual] of the price field
Prices(line) ==
    IF Len(line.prices) >= 2
    THEN LET standard == Float(line.prices[1])
             actual == Float(line.prices[2])
         IN  IF IsError(standard) THEN standard
             ELSE IF IsError(actual) THEN actual
             ELSE [standard |-> standard.value, actual |-> actual.value]
    ELSE LET price == Float(line.prices[1])
         IN  IF IsError(price) THEN price
             ELSE [standard |-> price.value, actual |-> price.value]

\* lines 241-249: the catalog entry of a name seen for the first time
CatalogEntry(name, standard_price, currency, category) ==
    [name |-> name, standardPrice |-> standard_price, currency |-> currency,
     category |-> category, purchaseCount |-> 0, buyout |-> TRUE]

\* lines 188-249: an item line
ItemLine(acc, line, now, h, rates_df) ==
    LET p == Prices(line)
        currency == Get(acc.metadata, "currency", EUR)
        purchase_date == Get(acc.metadata, "date", now)
        rate == get_exchange_rate(rates_df, currency, purchase_date)
    IN  IF IsError(p) THEN p
        ELSE IF IsError(rate) THEN rate
        ELSE
        LET item == Item(generate_product_id(line.name, now, h), line.name,
                         acc.current_category, p.actual, p.standard, currency, purchase_date,
                         Get(acc.metadata, "source", <<>>), Get(acc.metadata, "account", <<>>),
                         InvoiceName(line, acc.metadata), p.standard - p.actual, rate.value)
        IN  [acc EXCEPT
                !.items = Append(acc.items, item),
                !.deposits = IF IsDeposit(line.name, acc.current_category)
                             THEN With1(acc.deposits, line.name, Get(acc.deposits, line.name, 0) + 1)
                             ELSE acc.deposits,
                !.products = IF line.name \notin DOMAIN acc.products
                             THEN With1(acc.products, line.name,
                                        CatalogEntry(line.name, p.standard, currency,
                                                     acc.current_category))
                             ELSE acc.products]

\* lines 174-187: a deposit-return line
ReturnLine(acc, line, now) ==
    LET amount == Float(line.amount)
    IN  IF IsError(amount) THEN amount
        ELSE IF line.count.ok
        THEN [acc EXCEPT !.deposit_returns = Append(acc.deposit_returns,
                    [count |-> line.count.v, amount |-> amount.value,
                     date |-> Get(acc.metadata, "date", now)])]
        ELSE acc

\* the loop body with a line of no known shape rejected instead of skipped
InputLineStrict(acc, line, now, h, rates_df) ==
    IF line.kind = "sep" THEN [acc EXCEPT !.in_metadata = ~acc.in_metadata]
    ELSE IF acc.in_metadata
    THEN IF line.kind = "meta"
         THEN [acc EXCEPT !.metadata = With1(acc.metadata, line.key, line.value)]
         ELSE acc
    ELSE IF line.kind = "header" THEN [acc EXCEPT !.current_category = line.category]
    ELSE IF line.kind = "return" THEN ReturnLine(acc, line, now)
    ELSE IF line.kind = "item" THEN ItemLine(acc, line, now, h, rates_df)
    ELSE ValueError

\* one line of the loop (lines 161-249), in the order the code tests it
InputLine(acc, line, now, h, rates_df) ==
    IF line.kind = "sep" THEN [acc EXCEPT !.in_metadata = ~acc.in_metadata]
    ELSE IF acc.in_metadata
    THEN IF line.kind = "meta"
         THEN [acc EXCEPT !.metadata = With1(acc.metadata, line.key, line.value)]
         ELSE acc
    ELSE IF line.kind = "header" THEN [acc EXCEPT !.current_category = line.category]
    ELSE IF line.kind = "return" THEN ReturnLine(acc, line, now)
    ELSE IF line.kind = "item" THEN ItemLine(acc, line, now, h, rates_df)
    ELSE acc

RECURSIVE InputLinesFrom(_, _, _, _, _, _)
InputLinesFrom(acc, text, i, now, hs, rates_df) ==
    IF i > Len(text) THEN acc
    ELSE LET step == InputLine(acc, text[i], now, Get(hs, i, 0), rates_df)
         IN  IF IsError(step) THEN step
             ELSE InputLinesFrom(step, text, i + 1, now, hs, rates_df)

\* [items, products, deposits, deposit_returns], or the exception raised; products
\* and deposits are the caller's dicts, updated in place
parse_input_text(text, products, deposits, now, hs, rates_df) ==
    InputLinesFrom([in_metadata |-> FALSE, metadata |-> <<>>, items |-> <<>>,
                    current_category |-> <<>>, products |-> products, deposits |-> deposits,
                    deposit_returns |-> <<>>],
                   text, 1, now, hs, rates_df)

----------------------------------------------------------------------------
(* The purchase submit handler (src/lamer.py 452-494). *)

\* `if x and x not in lst: lst.append(x)`
AppendNew(lst, x) ==
    IF x # <<>> /\ (\A i \in 1..Len(lst) : lst[i] # x) THEN Append(lst, x) ELSE lst

\* lines 461-474, from item i on: purchase counts, accounts and categories
RECURSIVE RegisterFrom(_, _, _)
RegisterFrom(acc, new_items, i) ==
    IF i > Len(new_items) THEN acc
    ELSE LET item == new_items[i]
         IN  RegisterFrom(
                [products |-> IF item.name \in DOMAIN acc.products
                              THEN [acc.products EXCEPT ![item.name].purchaseCount = @ + 1]
                              ELSE acc.products,
                 accounts |-> AppendNew(AppendNew(acc.accounts, item.source), item.account),
                 categories |-> AppendNew(acc.categories, item.category)],
                new_items, i + 1)

----------------------------------------------------------------------------
(* expand_quick_input (src/lamer.py 111-150).  A line is the sequence of its *)
(* characters, a text the sequence of its lines: split('\n') and join.      *)

\* a character \w matches
IsWord(c) == IsAlnum(c) \/ c = "_"

\* str.startswith
StartsWith(s, p) == Len(s) >= Len(p) /\ SubSeq(s, 1, Len(p)) = p

RECURSIVE LStrip(_)
LStrip(s) == IF s # <<>> /\ Head(s) = " " THEN LStrip(Tail(s)) ELSE s

RECURSIVE RStrip(_)
RStrip(s) == IF s # <<>> /\ s[Len(s)] = " " THEN RStrip(SubSeq(s, 1, Len(s) - 1)) ELSE s

\* str.strip
Strip(s) == RStrip(LStrip(s))

\* str.replace(old, new): every occurrence of old, left to right, none overlapping
RECURSIVE StrReplace(_, _, _)
StrReplace(s, old, new) ==
    IF Len(s) < Len(old) THEN s
    ELSE IF SubSeq(s, 1, Len(old)) = old
    THEN new \o StrReplace(SubSeq(s, Len(old) + 1, Len(s)), old, new)
    ELSE <<Head(s)>> \o StrReplace(Tail(s), old, new)

\* the last position of the run of word characters that position i starts
RECURSIVE WordEnd(_, _)
WordEnd(s, i) == IF i + 1 <= Len(s) /\ IsWord(s[i + 1]) THEN WordEnd(s, i + 1) ELSE i

\* re.finditer(r'\$(\w+)', line): group(1) of the matches from position i on
RECURSIVE DollarHints(_, _)
DollarHints(s, i) ==
    IF i + 1 > Len(s) THEN <<>>
    ELSE IF s[i] = "$" /\ IsWord(s[i + 1])
    THEN <<SubSeq(s, i + 1, WordEnd(s, i + 1))>> \o DollarHints(s, WordEnd(s, i + 1) + 1)
    ELSE DollarHints(s, i + 1)

\* the least element of a nonempty set of indexes: where a `for ... break` loop stops
First(indexes) == CHOOSE i \in indexes : \A j \in indexes : i <= j

\* lines 124-130: the loop over the matches, from match i on; each match with
\* an account replaces its token in `line`
RECURSIVE AccountsFrom(_, _, _, _, _)
AccountsFrom(expanded_line, line, hints, i, accounts) ==
    IF i > Len(hints) THEN expanded_line
    ELSE LET hint == Lower(hints[i])
             found == {a \in 1..Len(accounts) : StartsWith(Lower(Flatten(accounts[a])), hint)}
         IN  AccountsFrom(IF found # {}
                          THEN StrReplace(line, <<"$">> \o hints[i], Flatten(accounts[First(found)]))
                          ELSE expanded_line,
                          line, hints, i + 1, accounts)

\* lines 121-130
ExpandAccounts(line, accounts) ==
    IF Contains(line, <<"$">>) /\ accounts # <<>>
    THEN AccountsFrom(line, line, DollarHints(line, 1), 1, accounts)
    ELSE line

\* lines 133-138 with the test for `##` alone
ExpandCategoryLoose(expanded_line, line, categories) ==
    IF StartsWith(line, <<"#", "#">>)
    THEN LET category_hint == Strip(SubSeq(line, 5, Len(line)))
             found == {c \in 1..Len(categories) :
                        Contains(Lower(Flatten(categories[c])), Lower(category_hint))}
         IN  IF found # {} THEN <<"#", "#", " ">> \o Flatten(categories[First(found)])
             ELSE expanded_line
    ELSE expanded_line

\* lines 133-138
ExpandCategory(expanded_line, line, categories) ==
    IF StartsWith(line, <<"#", "#", " ", "#">>)
    THEN LET category_hint == Strip(SubSeq(line, 5, Len(line)))
             found == {c \in 1..Len(categories) :
                        Contains(Lower(Flatten(categories[c])), Lower(category_hint))}
         IN  IF found # {} THEN <<"#", "#", " ">> \o Flatten(categories[First(found)])
             ELSE expanded_line
    ELSE expanded_line

Digits == <<"0", "1", "2", "3", "4", "5", "6", "7", "8", "9">>

RECURSIVE StrNat(_)
StrNat(n) == IF n < 10 THEN <<Digits[n + 1]>> ELSE StrNat(n \div 10) \o <<Digits[(n % 10) + 1]>>

\* str(price) of a float price of c cents, c >= 0: '7.0', '2.5', '0.25'
StrFloat(c) ==
    StrNat(c \div 100) \o <<".">> \o
    (IF c % 10 = 0 THEN <<Digits[((c % 100) \div 10) + 1]>>
     ELSE <<Digits[((c % 100) \div 10) + 1], Digits[(c % 10) + 1]>>)

\* products_db.items() in the order of the dict; the catalogs expanded against
\* hold at most one product, whose order is the only one
DictKeys(d) ==
    CHOOSE keys \in [1..Cardinality(DOMAIN d) -> DOMAIN d] :
        \A i, j \in DOMAIN keys : i # j => keys[i] # keys[j]

\* lines 141-146
ExpandProduct(expanded_line, line, products) ==
    IF StartsWith(Strip(line), <<"?">>)
    THEN LET product_hint == Strip(Tail(Strip(line)))
             names == DictKeys(products)
             found == {n \in 1..Len(names) :
                        Contains(Lower(Flatten(names[n])), Lower(product_hint))}
         IN  IF found # {}
             THEN Flatten(names[First(found)]) \o <<" ", ">", ">", " ">>
                    \o StrFloat(products[names[First(found)]].standardPrice)
             ELSE expanded_line
    ELSE expanded_line

\* lines 116-148: one line
ExpandLine(line, products, categories, accounts) ==
    ExpandProduct(ExpandCategory(ExpandAccounts(line, accounts), line, categories),
                  line, products)

expand_quick_input(text, products, categories, accounts) ==
    [k \in 1..Len(text) |-> ExpandLine(text[k], products, categories, accounts)]

----------------------------------------------------------------------------
(* parse_input_text on the characters (src/lamer.py 154-212): the tests and *)
(* the splits that make a line of characters the record of its parts.       *)

\* str.find(sub) + 1: where sub first occurs in s, 0 when it does not
Find(s, sub) ==
    LET at == {k \in 1..(Len(s) - Len(sub) + 1) : SubSeq(s, k, k + Len(sub) - 1) = sub}
    IN  IF at = {} THEN 0 ELSE First(at)

\* s.split(sep)[0]
Part0(s, sep) == IF Find(s, sep) = 0 THEN s ELSE SubSeq(s, 1, Find(s, sep) - 1)

\* s.split(sep, 1)[1], for s with sep in it
Rest(s, sep) == SubSeq(s, Find(s, sep) + Len(sep), Len(s))

\* s.split(sep)[1], for s with sep in it
Part1(s, sep) == Part0(Rest(s, sep), sep)

\* the text of a string: the word that spells it, else its characters
Word(chars) ==
    IF \E w \in DOMAIN CharTable : CharTable[w] = chars
    THEN <<CHOOSE w \in DOMAIN CharTable : CharTable[w] = chars>>
    ELSE chars

AllDigits(s) == s # <<>> /\ \A i \in 1..Len(s) : s[i] \in DigitSet

\* int(s) of a string of digits
RECURSIVE NatOf(_)
NatOf(s) ==
    IF s = <<>> THEN 0
    ELSE NatOf(SubSeq(s, 1, Len(s) - 1)) * 10
            + (CHOOSE d \in 0..9 : Digits[d + 1] = s[Len(s)])

\* the token float() is given: digits with at most one point and at most two
\* decimals are the number, in cents; any other string typed is no number
ToNumber(s) ==
    LET whole == Part0(s, <<".">>)
        frac == IF Find(s, <<".">>) = 0 THEN <<>> ELSE Rest(s, <<".">>)
    IN  IF /\ whole \o frac # <<>>
           /\ AllDigits(whole \o frac)
           /\ Len(frac) <= 2
        THEN Num(NatOf(whole) * 100 + (IF Len(frac) = 1 THEN NatOf(frac) * 10 ELSE NatOf(frac)))
        ELSE NotANumber

\* re.search(r'\((\d+)\)', left_part): the digits of the first match, as int()
\* reads them; no number without a match
ReturnCount(left_part) ==
    LET opens == {i \in 1..Len(left_part) :
                    /\ left_part[i] = "("
                    /\ \E j \in (i + 2)..Len(left_part) :
                        /\ left_part[j] = ")"
                        /\ AllDigits(SubSeq(left_part, i + 1, j - 1))}
    IN  IF opens = {} THEN NotANumber
        ELSE LET i == First(opens)
                 j == First({k \in (i + 2)..Len(left_part) : left_part[k] = ")"})
             IN  Num(NatOf(SubSeq(left_part, i + 1, j - 1)))

\* lines 175-180: the parts of a deposit-return line
LexReturn(line) ==
    [kind |-> "return",
     count |-> ReturnCount(Strip(Part0(line, <<"<", "<">>))),
     amount |-> ToNumber(Strip(Part1(line, <<"<", "<">>)))]

\* lines 189-212: the parts of an item line
LexItem(line) ==
    LET left_part == Strip(Part0(line, <<">", ">">>))
        right_part == Strip(Part1(line, <<">", ">">>))
        sep == <<":", ":">>
    IN  [kind |-> "item",
         invoice |-> IF Contains(left_part, sep)
                     THEN <<Word(Strip(Part0(left_part, sep)))>> ELSE <<>>,
         name |-> IF Contains(left_part, sep)
                  THEN Word(Strip(Part1(left_part, sep))) ELSE Word(left_part),
         prices |-> IF Contains(right_part, sep)
                    THEN <<ToNumber(Strip(Part0(right_part, sep))),
                           ToNumber(Strip(Part1(right_part, sep)))>>
                    ELSE <<ToNumber(right_part)>>]

\* the tests on a line with the test for `>>` made first
LexItemFirst(typed, in_metadata) ==
    LET line == Strip(typed)
    IN  IF line = <<"-", "-", "-">> THEN [kind |-> "sep"]
        ELSE IF in_metadata
        THEN IF Contains(line, <<Colon>>)
             THEN LET key == Strip(Part0(line, <<Colon>>))
                  IN  [kind |-> "meta",
                       key |-> IF Len(key) = 1 THEN key[1] ELSE "",
                       value |-> Word(Strip(Rest(line, <<Colon>>)))]
             ELSE [kind |-> "other"]
        ELSE IF Contains(line, <<">", ">">>) THEN LexItem(line)
        ELSE IF StartsWith(line, <<"#", "#", " ">>)
        THEN [kind |-> "header", category |-> Word(Strip(SubSeq(line, 4, Len(line))))]
        ELSE IF StartsWith(line, CharTable.Pfand) /\ Contains(line, <<"<", "<">>)
        THEN LexReturn(line)
        ELSE [kind |-> "other"]

\* lines 162-188: the tests on a line, in the order of the if/elif chain.  The
\* parser looks up the keys of one character only; any other key is kept as ""
Lex(typed, in_metadata) ==
    LET line == Strip(typed)
    IN  IF line = <<"-", "-", "-">> THEN [kind |-> "sep"]
        ELSE IF in_metadata
        THEN IF Contains(line, <<Colon>>)
             THEN LET key == Strip(Part0(line, <<Colon>>))
                  IN  [kind |-> "meta",
                       key |-> IF Len(key) = 1 THEN key[1] ELSE "",
                       value |-> Word(Strip(Rest(line, <<Colon>>)))]
             ELSE [kind |-> "other"]
        ELSE IF StartsWith(line, <<"#", "#", " ">>)
        THEN [kind |-> "header", category |-> Word(Strip(SubSeq(line, 4, Len(line))))]
        ELSE IF StartsWith(line, CharTable.Pfand) /\ Contains(line, <<"<", "<">>)
        THEN LexReturn(line)
        ELSE IF Contains(line, <<">", ">">>) THEN LexItem(line)
        ELSE [kind |-> "other"]

\* the loop over the lines from line i on, in_metadata flipping at each `---`
RECURSIVE LexFrom(_, _, _)
LexFrom(text, i, in_metadata) ==
    IF i > Len(text) THEN <<>>
    ELSE LET line == Lex(text[i], in_metadata)
         IN  <<line>> \o LexFrom(text, i + 1,
                                 IF line.kind = "sep" THEN ~in_metadata ELSE in_metadata)

\* the block parse_input_text reads in a text of characters
LexText(text) == LexFrom(text, 1, FALSE)

----------------------------------------------------------------------------
(* Inputs of the lifecycle specification. *)

StartDate == Date(2028, 1, 30)

FirstParseDay == Date(2027, 12, 25)

Netflix == <<"Netflix">>
Netflix4K == <<"Netflix4K">>
Pfand == <<"Pfand">>
Cash == <<"Cash">>
Milk == <<"Milk">>

\* lines 434-439: the metadata block the purchase page's template opens with
Template(now) ==
    << [kind |-> "sep"],
       [kind |-> "meta", key |-> "date", value |-> now],
       [kind |-> "meta", key |-> "source", value |-> <<>>],
       [kind |-> "meta", key |-> "account", value |-> <<>>],
       [kind |-> "meta", key |-> "currency", value |-> EUR],
       [kind |-> "sep"] >>

\* lines 669-677: the subscription page's template, with its empty category line
SubTemplate(now) ==
    << [kind |-> "sep"],
       [kind |-> "meta", key |-> "date", value |-> now],
       [kind |-> "meta", key |-> "source", value |-> <<>>],
       [kind |-> "meta", key |-> "account", value |-> <<>>],
       [kind |-> "meta", key |-> "currency", value |-> EUR],
       [kind |-> "meta", key |-> "category", value |-> <<>>],
       [kind |-> "sep"] >>

HeaderLine(category) == [kind |-> "header", category |-> category]

ItemOf(name, prices) == [kind |-> "item", invoice |-> <<>>, name |-> name, prices |-> prices]

ReturnOf(count, amount) == [kind |-> "return", count |-> Num(count), amount |-> Num(amount)]

SubOf(period, day, name, price) ==
    [kind |-> "sub", period |-> period, day |-> day, name |-> name, price |-> Num(price)]

PurchaseTexts(now) ==
    { Template(now) \o <<HeaderLine(Pfand), ItemOf(Pfand, <<Num(25)>>)>>,
      Template(now) \o <<ReturnOf(1, 25)>> }

RenewalTexts(now) ==
    { SubTemplate(now) \o <<SubOf("M", 15, Netflix, 7)>>,
      SubTemplate(now) \o <<SubOf("M", 31, Netflix, 7)>>,
      SubTemplate(now) \o <<SubOf("Y", 215, Netflix4K, 90)>> }

SubscriptionTexts(now) == { SubTemplate(now) \o <<SubOf("M", 15, Netflix, 7)>> }

\* a name bought and a name subscribed to, which can be the same
CatalogTexts(now) ==
    { Template(now) \o <<ItemOf(Netflix, <<Num(7)>>)>>,
      Template(now) \o <<ItemOf(Milk, <<Num(20)>>), ItemOf(Netflix, <<Num(7)>>)>> }

\* the blocks the purchase parser is tried on: the template followed by up to
\* BlockLines body lines, each an item line with one price or with
\* `standard :: actual`, a deposit return, or a line of no known shape
OtherLine == [kind |-> "other"]

PriceFields == {Num(-5), Num(20), NotANumber}

PairFields == {<<Num(25), Num(20)>>, <<Num(20), Num(25)>>, <<Num(20), NotANumber>>,
               <<NotANumber, Num(20)>>}

BodyLines ==
    { ItemOf(Milk, <<p>>) : p \in PriceFields }
    \cup { ItemOf(Milk, q) : q \in PairFields }
    \cup { OtherLine, ReturnOf(1, 25) }

ParserTexts(now) ==
    { Template(now) \o body : body \in UNION { [1..n -> BodyLines] : n \in 1..BlockLines } }

\* the metadata block with a date and a currency typed in
TemplateWith(date, currency) ==
    << [kind |-> "sep"],
       [kind |-> "meta", key |-> "date", value |-> date],
       [kind |-> "meta", key |-> "source", value |-> <<>>],
       [kind |-> "meta", key |-> "account", value |-> <<>>],
       [kind |-> "meta", key |-> "currency", value |-> currency],
       [kind |-> "sep"] >>

GBP == <<"GBP">>

\* exchange_rates.csv as curated by hand: one row per month, every row with
\* the same currency columns, in any order of the months; the USD rate of
\* each month is its own
RateMonths == {<<2027, 11>>, <<2028, 2>>}

RateColumns == {{EUR}, {EUR, USD}}

RateRow(month, columns) ==
    [month |-> month,
     rates |-> [c \in columns |-> IF c = EUR THEN 10 ELSE month[2] + 10]]

RateTables ==
    { [k \in 1..Len(ms) |-> RateRow(ms[k], columns)] :
        ms \in { q \in UNION { [1..n -> RateMonths] : n \in 1..Cardinality(RateMonths) } :
                    \A i, j \in DOMAIN q : i # j => q[i] # q[j] },
        columns \in RateColumns }

\* purchase dates before, in, between and after the months of the table
RateDates == {Date(2027, 10, 5), Date(2027, 11, 20), Date(2027, 12, 10), Date(2028, 3, 1)}

RateCurrencies == {EUR, USD, GBP}

RateTexts ==
    { TemplateWith(d, c) \o <<ItemOf(Milk, <<Num(20)>>)>> : d \in RateDates, c \in RateCurrencies }

\* what is typed into the text area for expansion: a line of up to
\* ExpandPieces pieces, alone or followed by the line `$c`
PayPal == <<"PayPal">>

Pieces ==
    { <<"$", "c">>, <<"$", "P", "a">>, <<"$", "z">>, <<"$">>, <<" ">>, <<"?">>,
      <<"#", "#", " ">>, <<"#">>, <<"i">> }

RECURSIVE Concat(_)
Concat(pieces) == IF pieces = <<>> THEN <<>> ELSE Head(pieces) \o Concat(Tail(pieces))

ExpandLines == { Concat(q) : q \in UNION { [1..n -> Pieces] : n \in 1..ExpandPieces } }

ExpandTexts == { <<l>> : l \in ExpandLines } \cup { <<l, <<"$", "c">> >> : l \in ExpandLines }

AccountLists == { <<>>, <<Cash, PayPal>>, <<PayPal, Cash>> }

Catalogs == { <<>>, (Milk :> CatalogEntry(Milk, 20, EUR, <<"drink">>)) }

\* what is typed into the text area of the purchase page, character by
\* character: up to TypedLines lines, each a separator, a header, a return
\* line, an item line, a metadata line, or a line that looks like two of them
TypedLineSet ==
    { <<"-", "-", "-">>,
      <<"#", "#", " ">> \o CharTable.Pfand,
      <<"#", "#", " ", "P", "F", "A", "N", "D">>,
      <<"#", "#", " ">> \o CharTable.Milk \o <<" ", ">", ">", " ", "2">>,
      CharTable.Pfand \o <<" ", "(", "1", ")", " ", "<", "<", " ", "0", ".", "2", "5">>,
      CharTable.Pfand \o <<" ", ">", ">", " ", "1", " ", "<", "<", " ", "2">>,
      CharTable.Pfand \o <<" ", ">", ">", " ", "0", ".", "2", "5">>,
      <<"a", "P", "F", "A", "N", "D", " ", ">", ">", " ", "1">>,
      CharTable.Milk \o <<" ", ">", ">", " ", "2">>,
      <<"account", Colon>> \o CharTable.Cash }

TypedTexts == UNION { [1..n -> TypedLineSet] : n \in 1..TypedLines }

\* the anchors the first due date is computed for
MonthlyAnchors == {1, 15, 25, 28, 29, 30, 31}

YearlyAnchors == {101, 215, 229, 630, 1231}

MonthlyTexts(now) == { SubTemplate(now) \o <<SubOf("M", d, Netflix, 7)>> : d \in MonthlyAnchors }

YearlyTexts(now) == { SubTemplate(now) \o <<SubOf("Y", md, Netflix, 90)>> : md \in YearlyAnchors }

\* the days a subscription is registered on
ParseDays == { AddDays(FirstParseDay, k) : k \in 0..ParseSpan }

Utilizations == {40}

SellPrices == {5}

\* what a multiselect over the rows' ids can hold: distinct ids, in click order
Selections(rows) ==
    { sel \in UNION { [1..n -> Ids(rows)] : n \in 1..Cardinality(Ids(rows)) } :
        \A i, j \in DOMAIN sel : i # j => sel[i] # sel[j] }

TotalRows(inv, hist, lost, sold) == Len(inv) + Len(hist) + Len(lost) + Len(sold)

----------------------------------------------------------------------------
(* The state machine. *)

default_categories == << <<"fruit">>, <<"grain">>, <<"drink">>, <<"daily">>, Pfand >>

\* lines 381-392 on an empty data directory
FreshStore ==
    /\ err = "none"
    /\ inventory_df = <<>>
    /\ history_df = <<>>
    /\ lost_df = <<>>
    /\ sold_df = <<>>
    /\ products_db = <<>>
    /\ categories_db = default_categories
    /\ accounts_db = <<>>
    /\ subscriptions_db = <<>>
    /\ deposits_db = <<>>
    /\ exchange_rates_df = SeedRates
    /\ renewed_subs = <<>>
    /\ deposit_returns = <<>>
    /\ input_text = <<>>
    /\ processed_text = <<>>
    /\ eurValue = <<>>
    /\ submitted = <<>>

Init ==
    /\ today = StartDate
    /\ pc = "idle"
    /\ FreshStore

\* the environment: days pass while no script runs
Tick ==
    /\ pc = "idle"
    /\ DaysBetween(StartDate, today) + JumpDays <= HorizonDays
    /\ today' = AddDays(today, JumpDays)
    /\ UNCHANGED <<rendered, submitted, pc, err, store, exchange_rates_df, renewed_subs, deposit_returns>>

\* a run that raised: nothing is written, the script stops
Crash(e) ==
    /\ err' = e.error
    /\ pc' = "idle"
    /\ UNCHANGED <<rendered, submitted, today, store, exchange_rates_df, renewed_subs, deposit_returns>>

\* lines 394-402: every script run opens with the renewal check; `click` tells
\* whether the run was started by a button, whose handler then follows
StartRun(click, hs) ==
    /\ pc \in {"idle", "rerun"}
    /\ click => pc = "idle"
    /\ LET r == check_subscriptions(subscriptions_db, inventory_df, history_df, today, hs,
                                    exchange_rates_df)
       IN  IF IsError(r) THEN Crash(r)
           ELSE /\ inventory_df' = r.inv
                /\ history_df' = r.hist
                /\ subscriptions_db' = r.subs
                /\ renewed_subs' = r.renewed
                /\ deposit_returns' = <<>>
                /\ submitted' = <<>>
                /\ eurValue' = <<>>
                /\ err' = "none"
                /\ pc' = IF click THEN "handle" ELSE "idle"
                /\ UNCHANGED <<input_text, processed_text, today, lost_df, sold_df, products_db, categories_db,
                               accounts_db, deposits_db, exchange_rates_df>>


\* lines 452-494
Submit(text, hs) ==
    /\ pc = "handle"
    /\ submitted' = text
    /\ LET r == parse_input_text(text, products_db, deposits_db, today, hs, exchange_rates_df)
       IN  IF IsError(r)
           THEN /\ err' = r.error
                /\ pc' = "idle"
                /\ UNCHANGED <<rendered, today, store, exchange_rates_df, renewed_subs,
                               deposit_returns>>
           ELSE IF r.items # <<>>
           THEN LET reg == RegisterFrom([products |-> r.products, accounts |-> accounts_db,
                                         categories |-> categories_db], r.items, 1)
                IN  /\ inventory_df' = inventory_df \o r.items
                    /\ products_db' = reg.products
                    /\ categories_db' = reg.categories
                    /\ accounts_db' = reg.accounts
                    /\ deposits_db' = r.deposits
                    /\ deposit_returns' = r.deposit_returns
                    /\ err' = "none"
                    /\ pc' = "rerun"
                    /\ UNCHANGED <<rendered, today, history_df, lost_df, sold_df,
                                   subscriptions_db, exchange_rates_df, renewed_subs>>
           ELSE /\ deposit_returns' = r.deposit_returns
                /\ err' = "NothingParsed"
                /\ pc' = "idle"
                /\ UNCHANGED <<rendered, today, store, exchange_rates_df, renewed_subs>>

\* lines 685-730
AddSubscription(text, hs) ==
    /\ pc = "handle"
    /\ LET parsed == parse_subscription_input(text, today)
       IN  IF IsError(parsed) THEN Crash(parsed)
           ELSE IF parsed.subs # <<>>
           THEN LET r == AddSubsFrom([subs |-> subscriptions_db, products |-> products_db,
                                      inv |-> inventory_df], parsed.subs, 1, today, hs,
                                     exchange_rates_df)
                IN  IF IsError(r) THEN Crash(r)
                    ELSE /\ subscriptions_db' = r.subs
                         /\ products_db' = r.products
                         /\ inventory_df' = r.inv
                         /\ err' = "none"
                         /\ pc' = "rerun"
                         /\ UNCHANGED <<rendered, submitted, today, history_df, lost_df, sold_df, categories_db,
                                        accounts_db, deposits_db, exchange_rates_df,
                                        renewed_subs, deposit_returns>>
           ELSE /\ pc' = "idle"
                /\ UNCHANGED <<rendered, submitted, today, err, store, exchange_rates_df, renewed_subs,
                               deposit_returns>>

\* lines 752-755
DeleteSubscription(sub_name) ==
    /\ pc = "handle"
    /\ sub_name \in SubNames(subscriptions_db)
    /\ subscriptions_db' = SelectSeq(subscriptions_db, LAMBDA sub : sub.name # sub_name)
    /\ pc' = "rerun"
    /\ UNCHANGED <<rendered, submitted, today, err, inventory_df, history_df, lost_df, sold_df, products_db,
                   categories_db, accounts_db, deposits_db, exchange_rates_df, renewed_subs,
                   deposit_returns>>

\* lines 559-573
Checkout(selected, utilization) ==
    /\ pc = "handle"
    /\ LET r == TakeFrom(inventory_df, <<>>, selected, 1)
       IN  /\ inventory_df' = r.src
           /\ history_df' = history_df \o
                    [k \in 1..Len(r.taken) |-> NormalCheckout(r.taken[k], utilization, today)]
    /\ pc' = "rerun"
    /\ UNCHANGED <<rendered, submitted, today, err, lost_df, sold_df, products_db, categories_db, accounts_db,
                   subscriptions_db, deposits_db, exchange_rates_df, renewed_subs,
                   deposit_returns>>

\* lines 577-588
MarkLost(selected) ==
    /\ pc = "handle"
    /\ LET r == TakeFrom(inventory_df, <<>>, selected, 1)
       IN  /\ inventory_df' = r.src
           /\ lost_df' = lost_df \o [k \in 1..Len(r.taken) |-> LostRow(r.taken[k], today)]
    /\ pc' = "rerun"
    /\ UNCHANGED <<rendered, submitted, today, err, history_df, sold_df, products_db, categories_db, accounts_db,
                   subscriptions_db, deposits_db, exchange_rates_df, renewed_subs,
                   deposit_returns>>

\* lines 598-613
Sell(selected, sell_price, sell_account) ==
    /\ pc = "handle"
    /\ LET r == TakeFrom(inventory_df, <<>>, selected, 1)
       IN  /\ inventory_df' = r.src
           /\ sold_df' = sold_df \o
                    [k \in 1..Len(r.taken) |-> SoldRow(r.taken[k], sell_price, sell_account, today)]
    /\ pc' = "rerun"
    /\ UNCHANGED <<rendered, submitted, today, err, history_df, lost_df, products_db, categories_db, accounts_db,
                   subscriptions_db, deposits_db, exchange_rates_df, renewed_subs,
                   deposit_returns>>

\* lines 618-624
Delete(selected) ==
    /\ pc = "handle"
    /\ inventory_df' = DeleteFrom(inventory_df, selected, 1)
    /\ pc' = "rerun"
    /\ UNCHANGED <<rendered, submitted, today, err, history_df, lost_df, sold_df, products_db, categories_db,
                   accounts_db, subscriptions_db, deposits_db, exchange_rates_df,
                   renewed_subs, deposit_returns>>

\* lines 641-651
Recover(selected) ==
    /\ pc = "handle"
    /\ LET r == TakeFrom(lost_df, <<>>, selected, 1)
       IN  /\ lost_df' = r.src
           /\ inventory_df' = inventory_df \o [k \in 1..Len(r.taken) |-> RecoveredRow(r.taken[k])]
    /\ pc' = "rerun"
    /\ UNCHANGED <<rendered, submitted, today, err, history_df, sold_df, products_db, categories_db, accounts_db,
                   subscriptions_db, deposits_db, exchange_rates_df, renewed_subs,
                   deposit_returns>>

\* lines 497-504: a run draws the inspect page, which computes the eurValue
\* column of the inventory row by row
Inspect ==
    /\ pc = "handle"
    /\ LET vals == [k \in 1..Len(inventory_df) |->
                        to_eur(exchange_rates_df, inventory_df[k].actualPrice,
                               inventory_df[k].currency, inventory_df[k].purchaseDate)]
           failed == {k \in 1..Len(vals) : IsError(vals[k])}
       IN  IF failed # {}
           THEN Crash(vals[CHOOSE k \in failed : \A j \in failed : k <= j])
           ELSE /\ eurValue' = [k \in 1..Len(vals) |-> vals[k].value]
                /\ err' = "none"
                /\ pc' = "idle"
                /\ UNCHANGED <<input_text, processed_text, submitted, today, store,
                               exchange_rates_df, renewed_subs, deposit_returns>>

\* the environment: exchange_rates.csv is edited by hand while no script runs
CurateRates(table) ==
    /\ pc = "idle"
    /\ exchange_rates_df' = table
    /\ UNCHANGED <<rendered, submitted, today, pc, err, store, renewed_subs, deposit_returns>>

\* lines 432-446: a run draws the purchase page, which expands the text area
Render ==
    /\ pc = "handle"
    /\ processed_text' = expand_quick_input(input_text, products_db, categories_db, accounts_db)
    /\ pc' = "idle"
    /\ UNCHANGED <<input_text, eurValue, submitted, today, err, store, exchange_rates_df,
                   renewed_subs, deposit_returns>>

\* lines 593-596: the account a sale can name
SellAccounts == IF accounts_db # <<>> THEN {accounts_db[i] : i \in 1..Len(accounts_db)} ELSE {Cash}

\* The hash residues a run can draw for k new ids.  A residue is any of
\* 0..HASH_MOD-1; the program only ever tests ids for equality, and an id made
\* today can only equal an id made today, so the draws are taken up to
\* renaming of the residues no id of today holds: every residue of today's
\* ids, and the first k that are not.
AllRows == inventory_df \o history_df \o lost_df \o sold_df

UsedResidues ==
    {AllRows[i].id[4] : i \in {j \in 1..Len(AllRows) :
        SubSeq(AllRows[j].id, 1, 3) = <<today.y % 100, today.m, today.d>>}}

Hashes(k) ==
    UsedResidues \cup
    {h \in 0..(Cardinality(UsedResidues) + k - 1) : h \notin UsedResidues /\ h < HASH_MOD}

\* the places where a run draws a hash residue
DueIndexes == {i \in 1..Len(subscriptions_db) : DateLE(subscriptions_db[i].nextDate, today)}

LinesOfKind(text, kind) == {i \in 1..Len(text) : text[i].kind = kind}

\* the subscriptions a text registers, each drawing one residue
SubCount(text) == Cardinality(LinesOfKind(text, "sub"))

\* the caps that keep the model finite: a run is taken only when the store has
\* room for the k rows it can add, and a purchase only of names bought fewer
\* than MaxCount times
RowRoom(n, k) == TotalRows(inventory_df, history_df, lost_df, sold_df) + k <= n

CountRoom(text) ==
    \A i \in LinesOfKind(text, "item") :
        /\ Get(products_db, text[i].name, [purchaseCount |-> 0]).purchaseCount < MaxCount
        /\ Get(deposits_db, text[i].name, 0) < MaxCount

\* subscriptions alone: registration, removal, the clock and the renewal check
NextRenewal ==
    \/ Tick
    \/ /\ pc # "handle"
       /\ RowRoom(RenewalRows, Cardinality(DueIndexes))
       /\ \E click \in BOOLEAN, hs \in [DueIndexes -> Hashes(Cardinality(DueIndexes))] :
            StartRun(click, hs)
    \/ /\ pc = "handle"
       /\ \E text \in RenewalTexts(today) :
            /\ RowRoom(RenewalRows, SubCount(text))
            /\ \E hs \in [1..SubCount(text) -> Hashes(SubCount(text))] :
                    AddSubscription(text, hs)
    \/ pc = "handle" /\ \E sub_name \in SubNames(subscriptions_db) :
            DeleteSubscription(sub_name)

SpecRenewal == Init /\ [][NextRenewal]_vars

\* every handler
Next ==
    \/ Tick
    \/ /\ pc # "handle"
       /\ RowRoom(LifecycleRows, Cardinality(DueIndexes))
       /\ \E click \in BOOLEAN, hs \in [DueIndexes -> Hashes(Cardinality(DueIndexes))] :
            StartRun(click, hs)
    \/ /\ pc = "handle"
       /\ \E text \in PurchaseTexts(today) :
            /\ RowRoom(LifecycleRows, Cardinality(LinesOfKind(text, "item")))
            /\ CountRoom(text)
            /\ \E hs \in [LinesOfKind(text, "item") -> Hashes(Cardinality(LinesOfKind(text, "item")))] :
                    Submit(text, hs)
    \/ /\ pc = "handle"
       /\ \E text \in SubscriptionTexts(today) :
            /\ RowRoom(LifecycleRows, SubCount(text))
            /\ \E hs \in [1..SubCount(text) -> Hashes(SubCount(text))] :
                    AddSubscription(text, hs)
    \/ pc = "handle" /\ \E sub_name \in SubNames(subscriptions_db) :
            DeleteSubscription(sub_name)
    \/ pc = "handle" /\ \E selected \in Selections(inventory_df), u \in Utilizations :
            Checkout(selected, u)
    \/ pc = "handle" /\ \E selected \in Selections(inventory_df) : MarkLost(selected)
    \/ pc = "handle" /\ \E selected \in Selections(inventory_df), p \in SellPrices,
                              a \in SellAccounts : Sell(selected, p, a)
    \/ pc = "handle" /\ \E selected \in Selections(inventory_df) : Delete(selected)
    \/ pc = "handle" /\ \E selected \in Selections(lost_df) : Recover(selected)

Spec == Init /\ [][Next]_vars

\* the purchase page alone: runs, and blocks submitted to parse_input_text
NextPurchase ==
    \/ /\ pc # "handle"
       /\ \E click \in BOOLEAN, hs \in [DueIndexes -> Hashes(Cardinality(DueIndexes))] :
            StartRun(click, hs)
    \/ /\ pc = "handle"
       /\ \E text \in ParserTexts(today) :
            /\ RowRoom(PurchaseRows, Cardinality(LinesOfKind(text, "item")))
            /\ \E hs \in [LinesOfKind(text, "item") -> Hashes(Cardinality(LinesOfKind(text, "item")))] :
                    Submit(text, hs)

SpecPurchase == Init /\ [][NextPurchase]_vars

\* purchases in several currencies and months against a curated rate table
InitRates ==
    /\ today = StartDate
    /\ pc = "idle"
    /\ err = "none"
    /\ inventory_df = <<>> /\ history_df = <<>> /\ lost_df = <<>> /\ sold_df = <<>>
    /\ products_db = <<>>
    /\ categories_db = default_categories
    /\ accounts_db = <<>>
    /\ subscriptions_db = <<>>
    /\ deposits_db = <<>>
    /\ exchange_rates_df \in RateTables
    /\ renewed_subs = <<>>
    /\ deposit_returns = <<>>
    /\ input_text = <<>> /\ processed_text = <<>> /\ eurValue = <<>> /\ submitted = <<>>

NextRates ==
    \/ /\ pc # "handle"
       /\ \E click \in BOOLEAN, hs \in [DueIndexes -> Hashes(Cardinality(DueIndexes))] :
            StartRun(click, hs)
    \/ /\ pc = "handle"
       /\ RowRoom(RateRows, 1)
       /\ \E text \in RateTexts :
            \E hs \in [LinesOfKind(text, "item") -> Hashes(1)] : Submit(text, hs)
    \/ Inspect
    \/ \E table \in RateTables : CurateRates(table)

SpecRates == InitRates /\ [][NextRates]_vars

\* expand_quick_input as a function of the text area, the catalog and the
\* accounts: the purchase page drawn once
InitExpand ==
    /\ today = StartDate
    /\ pc = "handle"
    /\ err = "none"
    /\ inventory_df = <<>> /\ history_df = <<>> /\ lost_df = <<>> /\ sold_df = <<>>
    /\ products_db \in Catalogs
    /\ categories_db = default_categories
    /\ accounts_db \in AccountLists
    /\ subscriptions_db = <<>>
    /\ deposits_db = <<>>
    /\ exchange_rates_df = SeedRates
    /\ renewed_subs = <<>>
    /\ deposit_returns = <<>>
    /\ input_text \in ExpandTexts
    /\ processed_text = <<>> /\ eurValue = <<>> /\ submitted = <<>>

NextExpand == Render

SpecExpand == InitExpand /\ [][NextExpand]_vars

\* the catalog: purchases and subscriptions of the same names
NextCatalog ==
    \/ /\ pc # "handle"
       /\ \E click \in BOOLEAN, hs \in [DueIndexes -> Hashes(Cardinality(DueIndexes))] :
            StartRun(click, hs)
    \/ /\ pc = "handle"
       /\ \E text \in CatalogTexts(today) :
            /\ RowRoom(CatalogRows, Cardinality(LinesOfKind(text, "item")))
            /\ \E hs \in [LinesOfKind(text, "item") -> Hashes(1)] : Submit(text, hs)
    \/ /\ pc = "handle"
       /\ \E text \in SubscriptionTexts(today) :
            /\ RowRoom(CatalogRows, SubCount(text))
            /\ \E hs \in [1..SubCount(text) -> Hashes(1)] : AddSubscription(text, hs)
    \/ pc = "handle" /\ \E sub_name \in SubNames(subscriptions_db) :
            DeleteSubscription(sub_name)

SpecCatalog == Init /\ [][NextCatalog]_vars

\* parse_input_text as a function of the characters typed: the submit button
\* pressed once on a fresh store, the text area holding any of TypedTexts
InitTyped ==
    /\ today = StartDate
    /\ pc = "handle"
    /\ err = "none"
    /\ inventory_df = <<>> /\ history_df = <<>> /\ lost_df = <<>> /\ sold_df = <<>>
    /\ products_db = <<>>
    /\ categories_db = default_categories
    /\ accounts_db = <<>>
    /\ subscriptions_db = <<>>
    /\ deposits_db = <<>>
    /\ exchange_rates_df = SeedRates
    /\ renewed_subs = <<>>
    /\ deposit_returns = <<>>
    /\ input_text \in TypedTexts
    /\ processed_text = expand_quick_input(input_text, products_db, categories_db, accounts_db)
    /\ eurValue = <<>> /\ submitted = <<>>

\* lines 446-453: the text area is expanded and handed to parse_input_text;
\* the residues of the ids are one draw
SubmitTyped ==
    LET text == LexText(expand_quick_input(input_text, products_db, categories_db, accounts_db))
    IN  \E hs \in [LinesOfKind(text, "item") -> Hashes(1)] : Submit(text, hs)

NextTyped == SubmitTyped

SpecTyped == InitTyped /\ [][NextTyped]_vars

\* parse_subscription_input as a function of the day it runs on: the add
\* button pressed on a fresh store, once, on any of ParseDays
InitParse ==
    /\ today \in ParseDays
    /\ pc = "handle"
    /\ FreshStore

NextMonthly ==
    \E text \in MonthlyTexts(today) :
        \E hs \in [1..SubCount(text) -> Hashes(SubCount(text))] : AddSubscription(text, hs)

SpecMonthly == InitParse /\ [][NextMonthly]_vars

NextYearly ==
    \E text \in YearlyTexts(today) :
        \E hs \in [1..SubCount(text) -> Hashes(SubCount(text))] : AddSubscription(text, hs)

SpecYearly == InitParse /\ [][NextYearly]_vars

----------------------------------------------------------------------------
(* The first due date of a registration (parse_subscription_input).        *)

\* C9: a monthly subscription with anchor day d registered on `today` gets
\* nextDate = day d of this month when today's day is before d, day d of the
\* next month (January of the next year in December) otherwise, and that date
\* is strictly after today.  Under SpecMonthly every state past the initial
\* one is the outcome of one registration.
C9_MonthlyFirstDue ==
    pc # "handle" =>
        /\ err = "none"
        /\ Len(subscriptions_db) = 1
        /\ LET sub == subscriptions_db[1]
               d == sub.day
               claimed == IF today.d < d THEN Date(today.y, today.m, d)
                          ELSE IF today.m = 12 THEN Date(today.y + 1, 1, d)
                          ELSE Date(today.y, today.m + 1, d)
           IN  /\ sub.nextDate = claimed
               /\ d <= DaysInMonth(claimed.y, claimed.m)
               /\ DateLT(today, sub.nextDate)

\* C10: a yearly subscription with anchor MMDD registered on `today` gets the
\* soonest calendar date with that month and day strictly after today.
C10_YearlyFirstDue ==
    pc # "handle" =>
        /\ err = "none"
        /\ Len(subscriptions_db) = 1
        /\ LET sub == subscriptions_db[1]
               m == sub.day \div 100
               d == sub.day % 100
               nd == sub.nextDate
           IN  /\ nd.m = m /\ nd.d = d /\ d <= DaysInMonth(nd.y, m)
               /\ DateLT(today, nd)
               /\ \A y \in today.y..(nd.y - 1) :
                    ~(d <= DaysInMonth(y, m) /\ DateLT(today, Date(y, m, d)))

----------------------------------------------------------------------------
(* The renewal check (check_subscriptions at the top of every run).  In    *)
(* both NextRenewal and Next the only step that leaves pc # "handle" with  *)
(* the clock unchanged is StartRun.                                         *)

\* C1: a run that finds a subscription due adds one inventory item of its
\* name, dated today, at the subscription's price and currency, moves every
\* inventory item that had the name into history as subscription_auto, 100,
\* today, days since its own purchase, and leaves the new item the only
\* inventory item of that name.
C1_RenewalStep ==
    [][(pc # "handle" /\ today' = today) =>
        \A i \in DueIndexes :
            LET sub == subscriptions_db[i]
                open == SelectSeq(inventory_df', LAMBDA r : r.name = sub.name)
            IN  /\ Len(open) = 1
                /\ open[1].purchaseDate = today
                /\ open[1].actualPrice = sub.price
                /\ open[1].standardPrice = sub.price
                /\ open[1].currency = sub.currency
                /\ \A k \in 1..Len(inventory_df) :
                        inventory_df[k].name = sub.name =>
                            \E j \in 1..Len(history_df') :
                                /\ history_df'[j].id = inventory_df[k].id
                                /\ history_df'[j].name = sub.name
                                /\ history_df'[j].checkoutMode = "subscription_auto"
                                /\ history_df'[j].utilization = 100
                                /\ history_df'[j].checkoutDate = today
                                /\ history_df'[j].daysInService =
                                        DaysBetween(inventory_df[k].purchaseDate, today)
    ]_vars

\* C2: each renewal a run performs sets nextDate to exactly one period after
\* the previous nextDate (one month for M, one year for Y), whatever today
\* is, and the new nextDate keeps the anchor.  A run that raised performed
\* none: it leaves err set and writes nothing.
C2_NextDateAdvance ==
    [][(pc # "handle" /\ today' = today /\ err' = "none") =>
        \A i \in DueIndexes :
            LET sub == subscriptions_db[i]
                prev == sub.nextDate
                next == subscriptions_db'[i].nextDate
            IN  /\ subscriptions_db'[i].name = sub.name
                /\ IF sub.period = "M"
                   THEN /\ next = IF prev.m = 12 THEN Date(prev.y + 1, 1, prev.d)
                                  ELSE Date(prev.y, prev.m + 1, prev.d)
                        /\ next.d = sub.day
                   ELSE /\ next = Date(prev.y + 1, prev.m, prev.d)
                        /\ next.m = sub.day \div 100
                        /\ next.d = sub.day % 100
    ]_vars

\* a renewal has been performed whose new nextDate is still behind today: it
\* was counted from the previous nextDate
C2_Witness ==
    /\ pc # "handle"
    /\ err = "none"
    /\ \E i \in 1..Len(subscriptions_db) :
        /\ \E k \in 1..Len(renewed_subs) : renewed_subs[k] = subscriptions_db[i].name
        /\ DateLT(subscriptions_db[i].nextDate, today)

\* C3: whatever has been done, the inventory holds at most one item per
\* subscription name.
C3_OneOpenInstance ==
    \A i \in 1..Len(subscriptions_db) :
        Cardinality({k \in 1..Len(inventory_df) :
                        inventory_df[k].name = subscriptions_db[i].name}) <= 1

\* C4: a run that finds two subscriptions due renews both; each gets exactly
\* one new inventory item, and every inventory item of a due name is archived
\* under its own name, so that no renewal touches the items of another name.
C4_TwoDueRenewals ==
    [][(pc # "handle" /\ today' = today /\ Cardinality(DueIndexes) >= 2) =>
        /\ err' = "none"
        /\ \A i \in DueIndexes :
            LET name == subscriptions_db[i].name
                open == SelectSeq(inventory_df', LAMBDA r : r.name = name)
            IN  /\ subscriptions_db'[i].nextDate # subscriptions_db[i].nextDate
                /\ Len(open) = 1
                /\ open[1].purchaseDate = today
                /\ Cardinality({k \in 1..Len(inventory_df) : inventory_df[k].name = name})
                     = Cardinality({j \in (Len(history_df) + 1)..Len(history_df') :
                                        /\ history_df'[j].name = name
                                        /\ history_df'[j].checkoutMode = "subscription_auto"})
        /\ Len(inventory_df') + Len(history_df')
             = Len(inventory_df) + Len(history_df) + Cardinality(DueIndexes)
    ]_vars

\* C5: a pass renews each due subscription once, however many periods have
\* elapsed, and it does renew it: the nextDate of every due subscription moves
\* forward by one period in every pass, which is what lets repeated passes on
\* the same day reach nextDate > today for all of them and then renew nothing.
C5_OneStepPerPass ==
    [][(pc # "handle" /\ today' = today) =>
        /\ \A i \in DueIndexes :
            LET prev == subscriptions_db[i].nextDate
                next == subscriptions_db'[i].nextDate
            IN  /\ DateLT(prev, next)
                /\ DaysBetween(prev, next) <= 366
                /\ Cardinality({k \in (Len(inventory_df) + 1)..Len(inventory_df') :
                        inventory_df'[k].name = subscriptions_db[i].name}) <= 1
        /\ \A i \in (1..Len(subscriptions_db)) \ DueIndexes :
                subscriptions_db'[i] = subscriptions_db[i]
        /\ DueIndexes = {} => inventory_df' = inventory_df /\ history_df' = history_df
    ]_vars

----------------------------------------------------------------------------
(* The handlers of the inventory page.  A run's handler is the step taken  *)
(* from pc = "handle".                                                      *)

\* C6: submitting a block with a return line `Pfand (N) << amount` while the
\* inventory holds at least N deposit-bearing items moves exactly N of them,
\* oldest first, to history with checkoutMode = pfand_return, takes N off the
\* deposit ledger, and leaves the other deposit-bearing items in the
\* inventory.  deposit_returns' holds what the submitted block returned.
C6_DepositReturn ==
    [][(pc = "handle" /\ deposit_returns' # <<>>) =>
        LET N == deposit_returns'[1].count
            bearing == {k \in 1..Len(inventory_df) :
                            IsDeposit(inventory_df[k].name, inventory_df[k].category)}
            left == {k \in 1..Len(inventory_df') :
                            IsDeposit(inventory_df'[k].name, inventory_df'[k].category)}
            moved == (Len(history_df) + 1)..Len(history_df')
        IN  Cardinality(bearing) >= N =>
                /\ Cardinality(moved) = N
                /\ \A j \in moved :
                    /\ history_df'[j].checkoutMode = "pfand_return"
                    /\ \E k \in bearing : inventory_df[k].id = history_df'[j].id
                    /\ \A k \in left :
                        DateLE(history_df'[j].purchaseDate, inventory_df'[k].purchaseDate)
                /\ Cardinality(left) = Cardinality(bearing) - N
                /\ \E name \in DOMAIN deposits_db :
                    /\ DOMAIN deposits_db' = DOMAIN deposits_db
                    /\ deposits_db'[name] = deposits_db[name] - N
                    /\ \A other \in DOMAIN deposits_db \ {name} :
                            deposits_db'[other] = deposits_db[other]
    ]_vars

\* C7: marking an inventory item lost moves it, with every attribute kept,
\* to the lost collection, and recovering it moves it back with the same
\* attributes and no lostDate: each step moves as many rows as it removes,
\* and every row it removes is found, unchanged, where it was moved to.
C7_LostRecoverRoundTrip ==
    [][pc = "handle" =>
        /\ Len(lost_df') > Len(lost_df) =>
            /\ Len(inventory_df) - Len(inventory_df') = Len(lost_df') - Len(lost_df)
            /\ \A k \in 1..Len(inventory_df) :
                \/ \E i \in 1..Len(inventory_df') : inventory_df'[i] = inventory_df[k]
                \/ \E j \in (Len(lost_df) + 1)..Len(lost_df') :
                        /\ DOMAIN lost_df'[j] = inv_cols \cup {"lostDate"}
                        /\ \A c \in inv_cols : lost_df'[j][c] = inventory_df[k][c]
        /\ Len(lost_df') < Len(lost_df) =>
            /\ Len(lost_df) - Len(lost_df') = Len(inventory_df') - Len(inventory_df)
            /\ \A k \in 1..Len(lost_df) :
                \/ \E i \in 1..Len(lost_df') : lost_df'[i] = lost_df[k]
                \/ \E j \in (Len(inventory_df) + 1)..Len(inventory_df') :
                        /\ DOMAIN inventory_df'[j] = inv_cols
                        /\ \A c \in inv_cols : inventory_df'[j][c] = lost_df[k][c]
    ]_vars

\* C8: history and sold only ever grow at the end, so an item placed there is
\* never removed or changed; and a row enters the inventory only from the
\* lost collection or as an item created in that step.
C8_ArchivesAreTerminal ==
    [][/\ Len(history_df) <= Len(history_df')
       /\ SubSeq(history_df', 1, Len(history_df)) = history_df
       /\ Len(sold_df) <= Len(sold_df')
       /\ SubSeq(sold_df', 1, Len(sold_df)) = sold_df
       /\ \A k \in 1..Len(inventory_df') :
            LET r == inventory_df'[k]
            IN  \/ \E i \in 1..Len(inventory_df) : inventory_df[i] = r
                \/ /\ Len(lost_df') < Len(lost_df)
                   /\ \E i \in 1..Len(lost_df) : r = [c \in inv_cols |-> lost_df[i][c]]
                \/ /\ TotalRows(inventory_df', history_df', lost_df', sold_df')
                        > TotalRows(inventory_df, history_df, lost_df, sold_df)
                   /\ r.purchaseDate = today
                   /\ DOMAIN r = inv_cols
    ]_vars

\* an item sits in history and one in sold: an operation has acted after the
\* first of them was archived
C8_Witness ==
    /\ Len(history_df) >= 1
    /\ Len(sold_df) >= 1

----------------------------------------------------------------------------
(* The purchase parser and its submit handler.  A step with submitted' # <<>>  *)
(* is a submit of the block submitted'; its item lines are parsed in order.   *)

\* the item lines of a block, in order
ItemLinesOf(text) == SelectSeq(text, LAMBDA l : l.kind = "item")

\* an item line one of whose price fields is no number
HasMalformedPrice(text) ==
    \E i \in 1..Len(text) :
        /\ text[i].kind = "item"
        /\ \E k \in 1..Len(text[i].prices) : k <= 2 /\ ~text[i].prices[k].ok

\* C11: every item line of a committed block yields an item, in order: a line
\* `name >> p` one with standardPrice = actualPrice = p and discount = 0, a
\* line `name >> s :: a` one with standardPrice = s, actualPrice = a and
\* discount = s - a.
C11_PriceFields ==
    [][(pc = "handle" /\ submitted' # <<>> /\ err' = "none") =>
        LET lines == ItemLinesOf(submitted')
            new == SubSeq(inventory_df', Len(inventory_df) + 1, Len(inventory_df'))
        IN  /\ Len(new) = Len(lines)
            /\ \A k \in 1..Len(lines) :
                IF Len(lines[k].prices) = 1
                THEN /\ new[k].standardPrice = lines[k].prices[1].v
                     /\ new[k].actualPrice = lines[k].prices[1].v
                     /\ new[k].discount = 0
                ELSE /\ new[k].standardPrice = lines[k].prices[1].v
                     /\ new[k].actualPrice = lines[k].prices[2].v
                     /\ new[k].discount = lines[k].prices[1].v - lines[k].prices[2].v
    ]_vars

\* a block with a one-price line and a two-price line has been committed
C11_Witness ==
    /\ pc = "rerun"
    /\ err = "none"
    /\ \E i, j \in 1..Len(submitted) :
        /\ submitted[i].kind = "item" /\ Len(submitted[i].prices) = 1
        /\ submitted[j].kind = "item" /\ Len(submitted[j].prices) = 2
        /\ submitted[j].prices[1] # submitted[j].prices[2]

\* C12: a block holding a line `name >> s :: a` with a > s is rejected as
\* malformed, and no item of any collection has a negative discount.
C12_MarkupRejected ==
    /\ (\E i \in 1..Len(submitted) :
            /\ submitted[i].kind = "item"
            /\ Len(submitted[i].prices) = 2
            /\ submitted[i].prices[1].ok /\ submitted[i].prices[2].ok
            /\ submitted[i].prices[2].v > submitted[i].prices[1].v)
        => (pc = "idle" /\ err # "none")
    /\ \A k \in 1..Len(AllRows) : AllRows[k].discount >= 0

\* C13: every item of every collection has discount = standardPrice -
\* actualPrice and neither price negative.
C13_PriceInvariant ==
    \A k \in 1..Len(AllRows) :
        /\ AllRows[k].discount = AllRows[k].standardPrice - AllRows[k].actualPrice
        /\ AllRows[k].actualPrice >= 0
        /\ AllRows[k].standardPrice >= 0

\* C19: the submit of a block one of whose price fields is no number raises,
\* and leaves every persisted collection as it was, whatever lines precede
\* the malformed one.
C19_MalformedNumberCommitsNothing ==
    [][(pc = "handle" /\ submitted' # <<>> /\ HasMalformedPrice(submitted')) =>
        /\ err' = "ValueError"
        /\ pc' = "idle"
        /\ UNCHANGED store
    ]_vars

\* a block with a valid item line ahead of a malformed one was submitted
C19_Witness ==
    /\ err = "ValueError"
    /\ \E i, j \in 1..Len(submitted) :
        /\ i < j
        /\ submitted[i].kind = "item" /\ ~HasMalformedPrice(<<submitted[i]>>)
        /\ HasMalformedPrice(<<submitted[j]>>)

\* C20: a line that is no header, return or item line raises nothing and
\* yields no record: a block of well-formed numbers ends without exception,
\* with one new item per item line and one return event per return line; and
\* a block with no item line and no return line is reported as a failure and
\* leaves every persisted collection as it was.
C20_SkippedLinesAndEmptyResult ==
    [][(pc = "handle" /\ submitted' # <<>>) =>
        /\ ~HasMalformedPrice(submitted') =>
            /\ err' \in {"none", "NothingParsed"}
            /\ Len(inventory_df') - Len(inventory_df) = Len(ItemLinesOf(submitted'))
            /\ Len(deposit_returns') = Cardinality(LinesOfKind(submitted', "return"))
        /\ (LinesOfKind(submitted', "item") = {} /\ LinesOfKind(submitted', "return") = {}) =>
            /\ err' = "NothingParsed"
            /\ pc' = "idle"
            /\ UNCHANGED store
    ]_vars

\* a block of nothing but lines of no known shape was submitted to a store
\* that held an item
C20_Witness ==
    /\ err = "NothingParsed"
    /\ LinesOfKind(submitted, "other") # {}
    /\ LinesOfKind(submitted, "item") = {}
    /\ LinesOfKind(submitted, "return") = {}
    /\ Len(inventory_df) >= 1

----------------------------------------------------------------------------
(* Exchange rates.  The item a committed purchase adds carries the date    *)
(* and the currency the rate was asked for, and the rate that was returned. *)

\* the items a step adds to the inventory
NewItems == SubSeq(inventory_df', Len(inventory_df) + 1, Len(inventory_df'))

YearMonth(dt) == <<dt.y, dt.m>>

\* month a is before month b
MonthLT(a, b) == a[1] < b[1] \/ (a[1] = b[1] /\ a[2] < b[2])

\* the rows of the table are in strictly increasing order of month
Chronological(rates_df) ==
    \A i, j \in 1..Len(rates_df) : i < j => MonthLT(rates_df[i].month, rates_df[j].month)

\* the currencies the table has a column for
Columns(rates_df) == DOMAIN rates_df[1].rates

\* C14: the rate of a purchase is the currency's rate in the row of the
\* purchase date's month when the table has such a row, and in the last row
\* of the table when it has none.
C14_RateOfMonthElseLastRow ==
    [][(pc = "handle" /\ submitted' # <<>> /\ err' = "none") =>
        \A k \in 1..Len(NewItems) :
            LET r == NewItems[k]
                rows == {i \in 1..Len(exchange_rates_df) :
                            exchange_rates_df[i].month = YearMonth(r.purchaseDate)}
            IN  /\ \A i \in rows : r.purchaseRate = exchange_rates_df[i].rates[r.currency]
                /\ rows = {} =>
                        r.purchaseRate =
                            exchange_rates_df[Len(exchange_rates_df)].rates[r.currency]
    ]_vars

\* a purchase dated in a month the table has no row for, after every month
\* of a table of one row, took that row's rate
C14_Witness ==
    /\ pc = "rerun"
    /\ Len(exchange_rates_df) = 1
    /\ \E k \in 1..Len(inventory_df) :
        /\ inventory_df[k].currency = USD
        /\ MonthLT(exchange_rates_df[1].month, YearMonth(inventory_df[k].purchaseDate))
        /\ inventory_df[k].purchaseRate = exchange_rates_df[1].rates[USD]

\* C15: with the table in chronological order, a purchase dated in a month
\* that has no row, with some row at or before that month, gets the rate of
\* the latest such row.
C15_LatestAtOrBefore ==
    [][(pc = "handle" /\ submitted' # <<>> /\ err' = "none"
            /\ Chronological(exchange_rates_df)) =>
        \A k \in 1..Len(NewItems) :
            LET r == NewItems[k]
                ym == YearMonth(r.purchaseDate)
                prior == {i \in 1..Len(exchange_rates_df) :
                            MonthLT(exchange_rates_df[i].month, ym)}
            IN  ((\A i \in 1..Len(exchange_rates_df) : exchange_rates_df[i].month # ym)
                    /\ prior # {}) =>
                \E i \in prior :
                    /\ \A j \in prior : j <= i
                    /\ r.purchaseRate = exchange_rates_df[i].rates[r.currency]
    ]_vars

\* C16: with no column for the currency in the table, a submitted block with
\* an item line raises and adds no item, and the inspect page raises on an
\* inventory item in such a currency other than the base currency, leaving
\* no eurValue: no rate of 1.0 is put in the column's place.
C16_MissingRateRaises ==
    [][/\ (pc = "handle" /\ submitted' # <<>>) =>
            \A i \in 1..Len(submitted') :
                (submitted'[i].kind = "meta" /\ submitted'[i].key = "currency"
                    /\ submitted'[i].value \notin Columns(exchange_rates_df)) =>
                    /\ err' = "KeyError"
                    /\ inventory_df' = inventory_df
                    /\ UNCHANGED store
       /\ Inspect =>
            ((\E k \in 1..Len(inventory_df) :
                    /\ inventory_df[k].currency # EUR
                    /\ inventory_df[k].currency \notin Columns(exchange_rates_df)) =>
                /\ err' = "KeyError"
                /\ eurValue' = <<>>)
    ]_vars

\* both have happened: the inspect page raised on an item bought in a
\* currency whose column the table has since lost, after which a block in a
\* currency without a column was submitted
C16_Witness ==
    /\ err = "KeyError"
    /\ \E k \in 1..Len(inventory_df) : inventory_df[k].currency \notin Columns(exchange_rates_df)
    /\ \E i \in 1..Len(submitted) :
        /\ submitted[i].kind = "meta" /\ submitted[i].key = "currency"
        /\ submitted[i].value \notin Columns(exchange_rates_df)

----------------------------------------------------------------------------
(* Quick-input expansion.  Under SpecExpand a state with pc = "idle" holds   *)
(* a text and what expand_quick_input made of it.                            *)

\* the line is a category shorthand or a product shorthand, which replace it whole
IsShorthandLine(line) ==
    StartsWith(line, <<"#", "#", " ", "#">>) \/ StartsWith(Strip(line), <<"?">>)

\* the line with every `$hint` token, from position i on, replaced by the
\* first account that starts with the hint, and left as it is with no such account
RECURSIVE EachTokenReplaced(_, _, _)
EachTokenReplaced(line, i, accounts) ==
    IF i > Len(line) THEN <<>>
    ELSE IF line[i] = "$" /\ i + 1 <= Len(line) /\ IsWord(line[i + 1])
    THEN LET e == WordEnd(line, i + 1)
             hint == Lower(SubSeq(line, i + 1, e))
             found == {a \in 1..Len(accounts) : StartsWith(Lower(Flatten(accounts[a])), hint)}
         IN  (IF found # {} THEN Flatten(accounts[First(found)]) ELSE SubSeq(line, i, e))
                \o EachTokenReplaced(line, e + 1, accounts)
    ELSE <<line[i]>> \o EachTokenReplaced(line, i + 1, accounts)

\* C17: every `$hint` token of a line is replaced, each on its own, by the
\* first account whose lowercase form starts with the lowercased hint, and a
\* token with no such account stays; so does the rest of the line.
C17_EachAccountTokenReplaced ==
    pc = "idle" =>
        \A k \in 1..Len(input_text) :
            ~IsShorthandLine(input_text[k]) =>
                processed_text[k] = EachTokenReplaced(input_text[k], 1, accounts_db)

\* a line holds a `$` token, a category shorthand or a product shorthand
HasToken(line) ==
    \/ \E i \in 1..(Len(line) - 1) : line[i] = "$" /\ IsWord(line[i + 1])
    \/ StartsWith(line, <<"#", "#", " ", "#">>)
    \/ StartsWith(Strip(line), <<"?">>)

\* C18: a text none of whose lines holds a `$hint` token, a `## #hint`
\* shorthand or a leading `?` is returned as it is, whatever the catalog,
\* the categories and the accounts.
C18_NoTokenNoChange ==
    (pc = "idle" /\ \A k \in 1..Len(input_text) : ~HasToken(input_text[k])) =>
        processed_text = input_text

\* a text with `$`, `#` and `?` characters but no token was expanded against a
\* catalog and accounts that are not empty
C18_Witness ==
    /\ pc = "idle"
    /\ processed_text # <<>>
    /\ accounts_db # <<>>
    /\ DOMAIN products_db # {}
    /\ \A k \in 1..Len(input_text) : ~HasToken(input_text[k])
    /\ \E k \in 1..Len(input_text) :
        /\ Contains(input_text[k], <<"$">>)
        /\ Contains(input_text[k], <<"#">>)
        /\ Contains(input_text[k], <<"?">>)

----------------------------------------------------------------------------
(* Identity of the items over the four collections.                        *)

\* C21: no two rows of inventory, history, lost and sold together share an
\* id, whenever and under whatever name they were created.
C21_UniqueIds ==
    \A i, j \in 1..Len(AllRows) : i # j => AllRows[i].id # AllRows[j].id

----------------------------------------------------------------------------
(* The expense trend (src/lamer.py 802-1000).                               *)

\* line 816: the rows both trend views iterate over
all_items == inventory_df \o history_df \o lost_df

\* lines 840-845 and 985-990: what the views read of a row, with the id that
\* tells one item from another
TrendEntry(row) == <<row.id, row.purchaseDate, row.actualPrice, row.currency>>

\* how many of the rows are that entry
CountOf(rows, e) == Cardinality({k \in 1..Len(rows) : TrendEntry(rows[k]) = e})

\* C22: a sell leaves the items the trend views aggregate as they were, each
\* as many times as before, and a delete takes the selected items out of them.
C22_SellKeepsTrend ==
    [][/\ (\E selected \in Selections(inventory_df), p \in SellPrices, a \in SellAccounts :
                Sell(selected, p, a)) =>
            \A k \in 1..Len(AllRows) :
                CountOf(all_items, TrendEntry(AllRows[k]))
                    = CountOf(all_items', TrendEntry(AllRows[k]))
       /\ \A selected \in Selections(inventory_df) :
            Delete(selected) =>
                \A i \in 1..Len(selected) : selected[i] \notin Ids(all_items')
    ]_vars

----------------------------------------------------------------------------
(* The purchase parser on typed characters.  Under SpecTyped the step from *)
(* pc = "handle" is the submit of the text area, input_text.                *)

IsSepLine(line) == Strip(line) = <<"-", "-", "-">>

\* line k of the text lies inside a metadata section
InMetadata(text, k) == Cardinality({j \in 1..(k - 1) : IsSepLine(text[j])}) % 2 = 1

MatchesHeader(line) == StartsWith(Strip(line), <<"#", "#", " ">>)

MatchesReturn(line) ==
    StartsWith(Strip(line), <<"P", "f", "a", "n", "d">>) /\ Contains(line, <<"<", "<">>)

MatchesItem(line) == Contains(line, <<">", ">">>)

\* the lines of each class, by the first rule that matches
HeaderLines(text) ==
    {k \in 1..Len(text) : ~IsSepLine(text[k]) /\ ~InMetadata(text, k) /\ MatchesHeader(text[k])}

ReturnLines(text) ==
    {k \in 1..Len(text) : /\ ~IsSepLine(text[k]) /\ ~InMetadata(text, k)
                          /\ ~MatchesHeader(text[k]) /\ MatchesReturn(text[k])}

ItemLines(text) ==
    {k \in 1..Len(text) : /\ ~IsSepLine(text[k]) /\ ~InMetadata(text, k)
                          /\ ~MatchesHeader(text[k]) /\ ~MatchesReturn(text[k])
                          /\ MatchesItem(text[k])}

\* the characters of the category in force at line k: those after `## ` in
\* the last header line before k, none without one
CategoryAt(text, k) ==
    LET before == {h \in HeaderLines(text) : h < k}
    IN  IF before = {} THEN <<>>
        ELSE LET h == CHOOSE h \in before : \A g \in before : g <= h
             IN  Strip(SubSeq(Strip(text[h]), 4, Len(Strip(text[h]))))

\* C23: a submitted text that raises nothing yields one item per line that
\* holds `>>` and is no header, no return line and not inside a metadata
\* section, in the order of the lines, each with the category of the last
\* header before it, and no more return events than it has return lines.
C23_FirstMatchingRule ==
    [][(pc = "handle" /\ submitted' # <<>> /\ err' \in {"none", "NothingParsed"}) =>
        /\ Len(NewItems) = Cardinality(ItemLines(input_text))
        /\ \A k \in ItemLines(input_text) :
            LET n == Cardinality({j \in ItemLines(input_text) : j <= k})
            IN  Flatten(NewItems[n].category) = CategoryAt(input_text, k)
        /\ Len(deposit_returns') <= Cardinality(ReturnLines(input_text))
    ]_vars

\* a text with a header line holding `>>`, then a return line holding `>>`,
\* then an item line, was committed as one item under that header's category
C23_Witness ==
    /\ pc = "rerun"
    /\ Len(input_text) = 3
    /\ MatchesHeader(input_text[1]) /\ MatchesItem(input_text[1])
    /\ MatchesReturn(input_text[2]) /\ MatchesItem(input_text[2])
    /\ ItemLines(input_text) = {3}
    /\ Len(inventory_df) = 1
    /\ inventory_df[1].category # <<>>


\* the product name of an item line: what stands left of `>>`, after `::`
\* when there is one
TypedName(line) ==
    LET left_part == Strip(Part0(line, <<">", ">">>))
    IN  IF Contains(left_part, <<":", ":">>) THEN Strip(Part1(left_part, <<":", ":">>))
        ELSE left_part

\* item line k bears a deposit: its name holds the keyword in any case, or
\* the category in force is the keyword, letter for letter when `exact` and
\* in any case otherwise
Bearing(text, k, exact) ==
    \/ Contains(Lower(TypedName(text[k])), PFAND)
    \/ IF exact THEN CategoryAt(text, k) = <<"P", "f", "a", "n", "d">>
       ELSE Lower(CategoryAt(text, k)) = PFAND

\* the step adds to the ledger count of every name the number of bearing item
\* lines of that name, and nothing else
LedgerFollows(exact) ==
    /\ DOMAIN deposits_db \subseteq DOMAIN deposits_db'
    /\ \A n \in DOMAIN deposits_db' :
        deposits_db'[n] - Get(deposits_db, n, 0) =
            Cardinality({k \in ItemLines(input_text) :
                            /\ TypedName(input_text[k]) = Flatten(n)
                            /\ Bearing(input_text, k, exact)})
    /\ \A k \in ItemLines(input_text) :
        Bearing(input_text, k, exact) =>
            \E n \in DOMAIN deposits_db' : Flatten(n) = TypedName(input_text[k])

\* C24 as stated: a committed block adds 1 to the ledger count of a name for
\* each item line of that name whose name holds the deposit keyword in any
\* case or whose current category is the keyword `Pfand` itself, and leaves
\* every other count as it was.
C24_LedgerExactCategory ==
    [][(pc = "handle" /\ submitted' # <<>> /\ err' = "none") => LedgerFollows(TRUE)]_vars

\* C24, amended: the same with the current category compared in any case, so
\* that an item line under `## PFAND` or `## pfand` counts as well.
C24_LedgerAnyCaseCategory ==
    [][(pc = "handle" /\ submitted' # <<>> /\ err' = "none") => LedgerFollows(FALSE)]_vars

\* a block was committed in which an item whose name does not hold the
\* keyword stands under a category that is the keyword in another case, and
\* the ledger counts it
C24_Witness ==
    /\ pc = "rerun"
    /\ \E k \in ItemLines(input_text) :
        /\ ~Bearing(input_text, k, TRUE)
        /\ Bearing(input_text, k, FALSE)
        /\ \E n \in DOMAIN deposits_db :
            Flatten(n) = TypedName(input_text[k]) /\ deposits_db[n] >= 1

----------------------------------------------------------------------------
(* The catalog.  Under SpecCatalog a step from pc = "handle" that adds rows *)
(* to the inventory is a purchase when submitted' # <<>> and a registration *)
(* of subscriptions otherwise.                                              *)

\* C25: a purchase enters the names new to the catalog with buyout = TRUE and
\* changes nothing but the purchase count in the entry of a name already
\* there; a registration leaves every name it registers with buyout = FALSE;
\* and no step removes an entry or turns a buyout that is FALSE into TRUE.
C25_BuyoutFlag ==
    [][/\ \A n \in DOMAIN products_db :
            /\ n \in DOMAIN products_db'
            /\ ~products_db[n].buyout => ~products_db'[n].buyout
       /\ (pc = "handle" /\ submitted' # <<>>) =>
            /\ \A n \in DOMAIN products_db' \ DOMAIN products_db : products_db'[n].buyout
            /\ \A n \in DOMAIN products_db :
                [products_db'[n] EXCEPT !.purchaseCount = 0]
                    = [products_db[n] EXCEPT !.purchaseCount = 0]
       /\ (pc = "handle" /\ submitted' = <<>>) =>
            \A k \in 1..Len(NewItems) : ~products_db'[NewItems[k].name].buyout
    ]_vars

\* a name first bought, then registered as a subscription, whose subscription
\* was deleted, has just been bought again and is still no buyout
C25_Witness ==
    /\ pc = "rerun"
    /\ submitted # <<>>
    /\ Netflix \in DOMAIN products_db
    /\ ~products_db[Netflix].buyout
    /\ products_db[Netflix].purchaseCount >= 2
    /\ Netflix \notin SubNames(subscriptions_db)

----------------------------------------------------------------------------
(* The category of a subscription (parse_subscription_input).  Every text  *)
(* registered in the lifecycle specification is the page's template with   *)
(* its category line left empty.                                           *)

\* C26: a subscription registered with no category value has the default
\* label as its category, so that no subscription, and no item made for a
\* subscription, has an empty category.
C26_DefaultCategory ==
    /\ \A i \in 1..Len(subscriptions_db) :
        subscriptions_db[i].category = SubscriptionService
    /\ \A k \in 1..Len(AllRows) :
        StartsWith(AllRows[k].invoiceName, <<"Sub_">>) => AllRows[k].category # <<>>

----------------------------------------------------------------------------
(* The four collections.  An item is told from another by its id.           *)

\* no id is in two of the collections
OneCollection ==
    /\ Ids(inventory_df) \cap (Ids(history_df) \cup Ids(lost_df) \cup Ids(sold_df)) = {}
    /\ Ids(history_df) \cap (Ids(lost_df) \cup Ids(sold_df)) = {}
    /\ Ids(lost_df) \cap Ids(sold_df) = {}

\* the step takes the selected items, and no other row, out of src and adds
\* one row for each of them to dst
Moves(selected, src, src_after, dst, dst_after) ==
    /\ Len(src) - Len(src_after) = Len(selected)
    /\ Len(dst_after) - Len(dst) = Len(selected)
    /\ \A i \in 1..Len(selected) :
        /\ selected[i] \notin Ids(src_after)
        /\ \E j \in (Len(dst) + 1)..Len(dst_after) : dst_after[j].id = selected[i]

\* C27: no item is in two collections; a checkout, a marking as lost, a sale
\* and a recovery each move the selected items from their collection to one
\* other collection, a renewal moves the old instances it archives from the
\* inventory to the history, and a delete takes the selected items out of
\* the inventory and adds them nowhere.
C27_OneCollectionPerItem ==
    /\ []OneCollection
    /\ [][/\ \A selected \in Selections(inventory_df) :
                /\ (\E u \in Utilizations : Checkout(selected, u)) =>
                        Moves(selected, inventory_df, inventory_df', history_df, history_df')
                /\ MarkLost(selected) =>
                        Moves(selected, inventory_df, inventory_df', lost_df, lost_df')
                /\ (\E p \in SellPrices, a \in SellAccounts : Sell(selected, p, a)) =>
                        Moves(selected, inventory_df, inventory_df', sold_df, sold_df')
                /\ Delete(selected) =>
                        /\ Len(inventory_df) - Len(inventory_df') = Len(selected)
                        /\ UNCHANGED <<history_df, lost_df, sold_df>>
          /\ \A selected \in Selections(lost_df) :
                Recover(selected) =>
                    Moves(selected, lost_df, lost_df', inventory_df, inventory_df')
          /\ (pc # "handle" /\ today' = today) =>
                /\ TotalRows(inventory_df', history_df', lost_df', sold_df')
                     = TotalRows(inventory_df, history_df, lost_df, sold_df)
                        + Len(renewed_subs')
                /\ \A j \in (Len(history_df) + 1)..Len(history_df') :
                        /\ history_df'[j].id \in Ids(inventory_df)
                        /\ history_df'[j].id \notin Ids(inventory_df')
       ]_vars

----------------------------------------------------------------------------
(* Anchors and short months.  In the renewal specification every number of *)
(* the texts is well formed, so that a ValueError can only come from a     *)
(* date.                                                                   *)

\* C28: no registration and no renewal check ends in a ValueError, and every
\* nextDate is a date of the calendar.
C28_AnchorsNeverFail ==
    /\ err # "ValueError"
    /\ \A i \in 1..Len(subscriptions_db) :
        LET nd == subscriptions_db[i].nextDate
        IN  nd.m \in 1..12 /\ nd.d \in 1..DaysInMonth(nd.y, nd.m)

====
